---- MODULE Spec2Model ----
(***************************************************************************)
(* The page session of the saba browser core (core/src/renderer/page.rs)   *)
(* with the style resolver it drives (layout/computed_style.rs).  The DOM, *)
(* the HTML/CSS parsers, the script runtime and the layout tree live in    *)
(* files that are not part of the sources at hand; they are modelled from  *)
(* the written specification (sections 4.2, 4.3 and 6).                    *)
(***************************************************************************)
EXTENDS Integers, Sequences, FiniteSets, TLC

\* Option<T>: None is the empty tuple, Some(v) the one-element tuple.
None == <<>>
Some(v) == <<v>>
IsSome(o) == o # <<>>
Unwrap(o) == o[1]
Max(a, b) == IF a >= b THEN a ELSE b

(***************************************************************************)
(* Bounds of the model.                                                    *)
(***************************************************************************)
\* largest number of mutating runs of a script that eventually stops
MaxMutations == 2
\* longest value typed into one input
MaxValueLen == 2
\* most entries in the list of subresources
MaxSubresources == 3
\* most properties the matched declarations set on one node
MaxDeclarations == 1
\* longest URL typed into the address bar
MaxUrlLen == 2

(***************************************************************************)
(* Keys.  A Rust char is modelled by its code point.                       *)
(***************************************************************************)
KEY_DELETE == 127
KEY_BACKSPACE == 8
KEY_SPACE == 32
\* char::is_ascii_graphic: U+0021 '!' ..= U+007E '~'
is_ascii_graphic(c) == c \in 33..126
\* backspace, delete, 'a', ' ', ESC (a control code), U+00E9 (not ASCII)
Keys == {KEY_BACKSPACE, KEY_DELETE, 97, KEY_SPACE, 27, 233}

(***************************************************************************)
(* Documents.  A document is its nodes in document (pre-)order; a node     *)
(* names its parent by index, 0 for the root.                              *)
(***************************************************************************)
DocumentNode == [kind |-> "Document", tag |-> "", parent |-> 0, text |-> <<>>, attrs |-> {}]
ElementNode(tag, parent, attrs) ==
    [kind |-> "Element", tag |-> tag, parent |-> parent, text |-> <<>>, attrs |-> attrs]
TextNode(parent, text) ==
    [kind |-> "Text", tag |-> "", parent |-> parent, text |-> text, attrs |-> {}]

\* Element::get_attribute
get_attribute(node, name) ==
    IF \E p \in node.attrs : p[1] = name
    THEN Some((CHOOSE p \in node.attrs : p[1] = name)[2])
    ELSE None

\* <body><h1>T</h1><p>Hi</p><input type=text name=username placeholder=.../></body>
DocForm ==
    << DocumentNode,
       ElementNode("body", 1, {}),
       ElementNode("h1", 2, {}),
       TextNode(3, <<84>>),
       ElementNode("p", 2, {}),
       TextNode(5, <<72, 105>>),
       ElementNode("input", 2, {<<"type", "text">>, <<"name", "username">>,
                                 <<"placeholder", "enter name">>}) >>

\* <body><a href=/x>L</a><a>M</a><a href=/y><input/></a>
\*       <a href=/z><span>N</span></a></body>
DocLinks ==
    << DocumentNode,
       ElementNode("body", 1, {}),
       ElementNode("a", 2, {<<"href", "/x">>}),
       TextNode(3, <<76>>),
       ElementNode("a", 2, {}),
       TextNode(5, <<77>>),
       ElementNode("a", 2, {<<"href", "/y">>}),
       ElementNode("input", 7, {<<"type", "text">>}),
       ElementNode("a", 2, {<<"href", "/z">>}),
       ElementNode("span", 9, {}),
       TextNode(10, <<78>>) >>

\* <body><a href=/w>K</a><script>js</script></body> with a { width: 3 }
DocWide ==
    << DocumentNode,
       ElementNode("body", 1, {}),
       ElementNode("a", 2, {<<"href", "/w">>}),
       TextNode(3, <<75>>),
       ElementNode("script", 2, {}),
       TextNode(5, <<106, 115>>) >>

\* <body><img src=a.bmp /></body>
DocImages ==
    << DocumentNode,
       ElementNode("body", 1, {}),
       ElementNode("img", 2, {<<"src", "a.bmp">>}) >>

\* the URLs of subresources: that of the image and another
Srcs == {"a.bmp", "b.bmp"}

\* The text of a <style> element: declarations (selector, property, value).
CssWide == << <<"a", "width", "3">> >>

\* The scripts a response can carry: one that mutates the DOM on `left`
\* more runs and then stops, or one that mutates it on every run.
Scripts == { [left |-> n, loops |-> FALSE] : n \in 0..MaxMutations }
             \cup { [left |-> 0, loops |-> TRUE] }

\* a document without a <script>: nothing to run
NoScript == [left |-> 0, loops |-> FALSE]

\* HttpResponse::body: the HTML text, kept structured: the nodes, the text
\* of its <style> and what its <script> does
Bodies == { [nodes |-> DocForm, css |-> <<>>, script |-> NoScript],
            [nodes |-> DocLinks, css |-> <<>>, script |-> NoScript] }
          \cup { [nodes |-> DocWide, css |-> CssWide, script |-> s] : s \in Scripts }

(***************************************************************************)
(* Style resolver (layout/computed_style.rs).                              *)
(***************************************************************************)
\* ComputedStyle::new: every property unset
ComputedStyleNew ==
    [background_color |-> None, color |-> None, display |-> None,
     font_size |-> None, height |-> None, margin |-> None, padding |-> None,
     text_decoration |-> None, white_space |-> None, width |-> None]

BoxInfoNew(top, right, left, bottom) ==
    [top |-> top, right |-> right, left |-> left, bottom |-> bottom]

\* Element::is_block_element
BlockElements == {"body", "h1", "h2", "p", "div", "pre", "ul", "li"}

\* DisplayType::default without the arm for script and style
DisplayTypeDefault_shows_script(node) ==
    CASE node.kind = "Document" -> "Block"
      [] node.kind = "Element" ->
            IF node.tag \in BlockElements THEN "Block" ELSE "Inline"
      [] OTHER -> "Inline"

\* DisplayType::default
DisplayTypeDefault(node) ==
    CASE node.kind = "Document" -> "Block"
      [] node.kind = "Element" ->
            IF node.tag = "script" \/ node.tag = "style" THEN "DisplayNone"
            ELSE IF node.tag \in BlockElements THEN "Block"
            ELSE "Inline"
      [] OTHER -> "Inline"

\* DisplayType::from_str that takes an unknown keyword for inline
DisplayTypeFromStr_lenient(s) ==
    CASE s = "block" -> [ok |-> TRUE, value |-> "Block"]
      [] s = "none" -> [ok |-> TRUE, value |-> "DisplayNone"]
      [] OTHER -> [ok |-> TRUE, value |-> "Inline"]

\* DisplayType::from_str: Ok(display) or Err(UnexpectedInput)
DisplayTypeFromStr(s) ==
    CASE s = "block" -> [ok |-> TRUE, value |-> "Block"]
      [] s = "inline" -> [ok |-> TRUE, value |-> "Inline"]
      [] s = "none" -> [ok |-> TRUE, value |-> "DisplayNone"]
      [] OTHER -> [ok |-> FALSE, value |-> "UnexpectedInput"]

\* FontSize::default without the arm for h2
FontSizeDefault_h1_only(node) ==
    IF node.kind = "Element"
    THEN (CASE node.tag = "h1" -> "XXLarge"
            [] OTHER -> "Medium")
    ELSE "Medium"

\* FontSize::default
FontSizeDefault(node) ==
    IF node.kind = "Element"
    THEN (CASE node.tag = "h1" -> "XXLarge"
            [] node.tag = "h2" -> "XLarge"
            [] OTHER -> "Medium")
    ELSE "Medium"

\* TextDecoration::default without the arm for a
TextDecorationDefault_plain(node) == "None"

\* TextDecoration::default
TextDecorationDefault(node) ==
    IF node.kind = "Element" /\ node.tag = "a" THEN "Underline" ELSE "None"

\* WhiteSpace::default
WhiteSpaceDefault(node) ==
    IF node.kind = "Element"
    THEN (CASE node.tag = "p" -> "Normal"
            [] node.tag = "pre" -> "Pre"
            [] OTHER -> "Normal")
    ELSE "Normal"

\* an inherited property in ComputedStyle::defaulting: kept when set; else
\* a property that takes the parent's value whenever there is a parent
InheritOrDefault_always(self, parent_style, field, ua_default, node_default) ==
    IF IsSome(self[field]) THEN self[field]
    ELSE IF IsSome(parent_style)
    THEN Some(Unwrap(Unwrap(parent_style)[field]))
    ELSE Some(node_default)

\* the parent's value, when it is not the user-agent default, even over a
\* value the declarations set
InheritOrDefault_parent_first(self, parent_style, field, ua_default, node_default) ==
    IF IsSome(parent_style) /\ Unwrap(Unwrap(parent_style)[field]) # ua_default
    THEN Some(Unwrap(Unwrap(parent_style)[field]))
    ELSE IF IsSome(self[field]) THEN self[field]
    ELSE Some(node_default)

\* a property that takes the node's own default and never the parent's value
InheritOrDefault_own(self, parent_style, field, ua_default, node_default) ==
    IF IsSome(self[field]) THEN self[field] ELSE Some(node_default)

\* the parent's value when there is a parent and its value is not the
\* user-agent default; else the node's own default
InheritOrDefault(self, parent_style, field, ua_default, node_default) ==
    IF IsSome(self[field]) THEN self[field]
    ELSE IF IsSome(parent_style) /\ Unwrap(Unwrap(parent_style)[field]) # ua_default
    THEN Some(Unwrap(Unwrap(parent_style)[field]))
    ELSE Some(node_default)

\* a property that is not inherited: kept when set, else its default
OrDefault(value, default) == IF IsSome(value) THEN value ELSE Some(default)

\* defaulting that takes an unset display from the parent
defaulting_inherits_display(self, node, parent_style) ==
    [background_color |->
        InheritOrDefault(self, parent_style, "background_color", "white", "white"),
     color |-> InheritOrDefault(self, parent_style, "color", "black", "black"),
     display |->
        InheritOrDefault(self, parent_style, "display", "Inline", DisplayTypeDefault(node)),
     font_size |->
        InheritOrDefault(self, parent_style, "font_size", "Medium", FontSizeDefault(node)),
     height |-> OrDefault(self.height, 0),
     margin |-> OrDefault(self.margin, BoxInfoNew(0, 0, 0, 0)),
     padding |-> OrDefault(self.padding, BoxInfoNew(0, 0, 0, 0)),
     text_decoration |->
        InheritOrDefault(self, parent_style, "text_decoration", "None",
                         TextDecorationDefault(node)),
     white_space |-> OrDefault(self.white_space, WhiteSpaceDefault(node)),
     width |-> OrDefault(self.width, 0)]

\* defaulting that leaves white-space as the declarations left it
defaulting_without_white_space(self, node, parent_style) ==
    [background_color |->
        InheritOrDefault(self, parent_style, "background_color", "white", "white"),
     color |-> InheritOrDefault(self, parent_style, "color", "black", "black"),
     display |-> OrDefault(self.display, DisplayTypeDefault(node)),
     font_size |->
        InheritOrDefault(self, parent_style, "font_size", "Medium", FontSizeDefault(node)),
     height |-> OrDefault(self.height, 0),
     margin |-> OrDefault(self.margin, BoxInfoNew(0, 0, 0, 0)),
     padding |-> OrDefault(self.padding, BoxInfoNew(0, 0, 0, 0)),
     text_decoration |->
        InheritOrDefault(self, parent_style, "text_decoration", "None",
                         TextDecorationDefault(node)),
     white_space |-> self.white_space,
     width |-> OrDefault(self.width, 0)]

\* ComputedStyle::defaulting(node, parent_style)
defaulting(self, node, parent_style) ==
    [background_color |->
        InheritOrDefault(self, parent_style, "background_color", "white", "white"),
     color |-> InheritOrDefault(self, parent_style, "color", "black", "black"),
     display |-> OrDefault(self.display, DisplayTypeDefault(node)),
     font_size |->
        InheritOrDefault(self, parent_style, "font_size", "Medium", FontSizeDefault(node)),
     height |-> OrDefault(self.height, 0),
     margin |-> OrDefault(self.margin, BoxInfoNew(0, 0, 0, 0)),
     padding |-> OrDefault(self.padding, BoxInfoNew(0, 0, 0, 0)),
     text_decoration |->
        InheritOrDefault(self, parent_style, "text_decoration", "None",
                         TextDecorationDefault(node)),
     white_space |-> OrDefault(self.white_space, WhiteSpaceDefault(node)),
     width |-> OrDefault(self.width, 0)]

(***************************************************************************)
(* CSS collaborator and cascade (section 6; matching is by element kind).  *)
(***************************************************************************)
\* a CSS number token
CssNumber(text) ==
    CASE text = "1" -> 1 [] text = "2" -> 2 [] text = "3" -> 3 [] OTHER -> 0

\* CssParser::parse_stylesheet: the rules of a style text; a declaration
\* whose value is not understood is dropped
CssRule(decl) ==
    CASE decl[2] = "display" ->
            IF DisplayTypeFromStr(decl[3]).ok
            THEN << [tag |-> decl[1], prop |-> "display",
                     value |-> DisplayTypeFromStr(decl[3]).value] >>
            ELSE <<>>
      [] decl[2] \in {"width", "height"} ->
            << [tag |-> decl[1], prop |-> decl[2], value |-> CssNumber(decl[3])] >>
      [] OTHER -> <<>>

RECURSIVE parse_stylesheet(_)
parse_stylesheet(text) ==
    IF text = <<>> THEN <<>>
    ELSE CssRule(Head(text)) \o parse_stylesheet(Tail(text))

\* the fields of ComputedStyle, in the order of the struct
StyleFields ==
    {"background_color", "color", "display", "font_size", "height", "margin", "padding",
     "text_decoration", "white_space", "width"}

\* the properties defaulting takes from the parent, in the order it
\* consults them (computed_style.rs, 74-88)
InheritedFields == <<"background_color", "color", "font_size", "text_decoration">>

\* the fields that have a setter: set_background_color, set_color,
\* set_height, set_display, set_width, set_margin, set_padding, set_font_size
SetterFields ==
    {"background_color", "color", "height", "display", "width", "margin", "padding",
     "font_size"}

\* ComputedStyle::set_<field>
set_property(self, field, value) == [self EXCEPT ![field] = Some(value)]

\* ComputedStyle::<field>(): the value, or the abort of expect() on None
Accessor(self, field) ==
    IF IsSome(self[field]) THEN [aborted |-> FALSE, value |-> self[field]]
    ELSE [aborted |-> TRUE, value |-> None]

\* the inherited properties for which defaulting calls the accessor of the
\* parent style: those that are unset on the node (the && of lines 74-86
\* does not reach the accessor otherwise)
Consulted(self) == SelectSeq(InheritedFields, LAMBDA f : ~IsSome(self[f]))

\* defaulting aborts in the first accessor of the parent style that finds
\* its field unset: the property at which it does, if any
DefaultingAbortsAt(self, parent_style) ==
    IF ~IsSome(parent_style) THEN None
    ELSE LET missing == SelectSeq(Consulted(self),
                                  LAMBDA f : Accessor(Unwrap(parent_style), f).aborted)
         IN  IF missing = <<>> THEN None ELSE Some(Head(missing))

\* the declarations of the style sheet that match the node, layered on a
\* fresh ComputedStyle in rule order
RECURSIVE Cascade(_, _, _)
Cascade(self, node, rules) ==
    IF rules = <<>> THEN self
    ELSE LET r == Head(rules)
         IN  Cascade(IF node.kind = "Element" /\ node.tag = r.tag
                     THEN [self EXCEPT ![r.prop] = Some(r.value)]
                     ELSE self,
                     node, Tail(rules))

\* the resolved styles of the first k nodes, in document order: each node's
\* cascaded style defaulted against the resolved style of its parent, which
\* precedes it
RECURSIVE StylesUpTo(_, _, _)
StylesUpTo(nodes, rules, k) ==
    IF k = 0 THEN <<>>
    ELSE LET prev == StylesUpTo(nodes, rules, k - 1)
         IN  Append(prev,
                    defaulting(Cascade(ComputedStyleNew, nodes[k], rules), nodes[k],
                               IF nodes[k].parent = 0 THEN None
                               ELSE Some(prev[nodes[k].parent])))

(***************************************************************************)
(* Layout tree builder (section 4.2), in whole character cells.            *)
(***************************************************************************)
CONTENT_AREA_WIDTH == 6
CHAR_WIDTH == 1
CHAR_HEIGHT == 1
INPUT_WIDTH == 2
INPUT_HEIGHT == 1

NodeIds(nodes) == 1..Len(nodes)

RECURSIVE LayoutBox(_, _, _), Flow(_, _, _)

\* the children cs of one box laid out: a block child starts a new line at
\* the left edge below what precedes it, inline children follow one another
\* on the line.  w is the width and y + line the height the children take;
\* rel gives the box of every node below, relative to the parent's corner.
Flow(nodes, st, cs) ==
    IF cs = <<>> THEN [x |-> 0, y |-> 0, line |-> 0, w |-> 0, rel |-> <<>>]
    ELSE LET prev == Flow(nodes, st, SubSeq(cs, 1, Len(cs) - 1))
             c == cs[Len(cs)]
             box == LayoutBox(nodes, st, c)
             block == Unwrap(st[c].display) = "Block"
             dx == IF block THEN 0 ELSE prev.x
             dy == IF block THEN prev.y + prev.line ELSE prev.y
             moved == [m \in DOMAIN box.rel |->
                         [point |-> <<box.rel[m].point[1] + dx, box.rel[m].point[2] + dy>>,
                          size |-> box.rel[m].size]]
         IN  [x |-> IF block THEN 0 ELSE prev.x + box.size[1],
              y |-> IF block THEN dy + box.size[2] ELSE prev.y,
              line |-> IF block THEN 0 ELSE Max(prev.line, box.size[2]),
              w |-> Max(prev.w, dx + box.size[1]),
              rel |-> prev.rel @@ moved]

\* the box of node n and the boxes below it, relative to the corner of n.
\* Width: explicit, else the content width for a block, else intrinsic (a
\* character cell per character of text, a fixed size for an input, the
\* children's extent for any other inline box); height likewise.
LayoutBox(nodes, st, n) ==
    LET inner == Flow(nodes, st,
                      SelectSeq([i \in NodeIds(nodes) |-> i],
                                LAMBDA i : nodes[i].parent = n
                                           /\ Unwrap(st[i].display) # "DisplayNone"))
        width == IF Unwrap(st[n].width) > 0 THEN Unwrap(st[n].width)
                 ELSE IF Unwrap(st[n].display) = "Block" THEN CONTENT_AREA_WIDTH
                 ELSE IF nodes[n].kind = "Text" THEN Len(nodes[n].text) * CHAR_WIDTH
                 ELSE IF nodes[n].tag = "input" THEN INPUT_WIDTH
                 ELSE inner.w
        height == IF Unwrap(st[n].height) > 0 THEN Unwrap(st[n].height)
                  ELSE IF nodes[n].kind = "Text" THEN CHAR_HEIGHT
                  ELSE IF nodes[n].tag = "input" THEN INPUT_HEIGHT
                  ELSE inner.y + inner.line
    IN  [size |-> <<width, height>>,
         rel |-> (n :> [point |-> <<0, 0>>, size |-> <<width, height>>]) @@ inner.rel]

\* the resolved style of every node of the DOM
Styles(nodes, rules) == StylesUpTo(nodes, rules, Len(nodes))

\* one LayoutObject per surviving node: its parent, resolved style, position
\* and size; the root is the document, at the corner of the content area
LayoutObjects(nodes, st) ==
    LET boxes == IF Unwrap(st[1].display) = "DisplayNone" THEN <<>>
                 ELSE LayoutBox(nodes, st, 1).rel
    IN  [n \in DOMAIN boxes |->
            [parent |-> nodes[n].parent, style |-> st[n],
             point |-> boxes[n].point, size |-> boxes[n].size]]

\* LayoutView::new(dom, style); `dom` names the DOM that the node references
\* of the LayoutObjects point into
LayoutViewNew(id, dom, rules) ==
    [dom |-> id, objects |-> LayoutObjects(dom.nodes, Styles(dom.nodes, rules))]

\* LayoutView::find_node_by_position: the deepest box that contains the
\* position (of two equally deep ones, the later in document order)
RECURSIVE BoxDepth(_, _)
BoxDepth(objects, n) ==
    IF objects[n].parent = 0 THEN 0 ELSE 1 + BoxDepth(objects, objects[n].parent)

BoxContains(o, position) ==
    /\ o.point[1] <= position[1] /\ position[1] < o.point[1] + o.size[1]
    /\ o.point[2] <= position[2] /\ position[2] < o.point[2] + o.size[2]

find_node_by_position(view, position) ==
    LET hits == {n \in DOMAIN view.objects : BoxContains(view.objects[n], position)}
    IN  IF hits = {} THEN None
        ELSE Some(CHOOSE n \in hits :
                    \A m \in hits :
                        \/ BoxDepth(view.objects, m) < BoxDepth(view.objects, n)
                        \/ (BoxDepth(view.objects, m) = BoxDepth(view.objects, n) /\ m <= n))

(***************************************************************************)
(* Paint generator (section 4.3): the display list of a box tree, in       *)
(* document order.  `dom` is the DOM the boxes refer to.                   *)
(***************************************************************************)
PaintNode(o, node, value) ==
    CASE node.kind = "Text" ->
            << [item |-> "Text", text |-> node.text, style |-> o.style,
                layout_point |-> o.point] >>
      [] node.kind = "Element" /\ node.tag = "input" ->
            << [item |-> "Input",
                input_type |-> IF IsSome(get_attribute(node, "type"))
                               THEN Unwrap(get_attribute(node, "type")) ELSE "text",
                name |-> get_attribute(node, "name"),
                placeholder |-> get_attribute(node, "placeholder"),
                value |-> value, style |-> o.style,
                layout_point |-> o.point, layout_size |-> o.size] >>
      [] node.kind = "Element" /\ node.tag = "img" ->
            << [item |-> "Img",
                src |-> IF IsSome(get_attribute(node, "src"))
                        THEN Unwrap(get_attribute(node, "src")) ELSE "",
                style |-> o.style, layout_point |-> o.point] >>
      [] node.kind = "Element" /\ Unwrap(o.style.display) = "Block" ->
            << [item |-> "Rect", style |-> o.style, layout_point |-> o.point,
                layout_size |-> o.size] >>
      [] OTHER -> <<>>

RECURSIVE PaintFrom(_, _, _)
PaintFrom(view, dom, n) ==
    IF n > Len(dom.nodes) THEN <<>>
    ELSE (IF n \in DOMAIN view.objects
          THEN PaintNode(view.objects[n], dom.nodes[n], dom.value[n])
          ELSE <<>>) \o PaintFrom(view, dom, n + 1)

\* LayoutView::paint
paint(view, dom) == PaintFrom(view, dom, 1)

(***************************************************************************)
(* HTML and script collaborators (section 6).                              *)
(***************************************************************************)
\* HtmlParser::construct_tree: a fresh DOM; no input has a value yet
construct_tree(html) ==
    [nodes |-> html.nodes, css |-> html.css, script |-> html.script,
     value |-> [n \in NodeIds(html.nodes) |-> None]]

\* dom_to_html: the DOM serialized back to HTML text
dom_to_html(dom) == [nodes |-> dom.nodes, css |-> dom.css, script |-> dom.script]

\* get_style_content / get_js_content: the text of <style> and of <script>
get_style_content(dom) == dom.css
get_js_content(dom) == dom.script

\* whether a run of the script changes the DOM
ScriptMutates(script) == script.loops \/ script.left > 0

\* what a mutating run writes: it marks the first text of the document,
\* '!' and '?' in turn
MarkText(text) ==
    IF text # <<>> /\ text[Len(text)] = 33 THEN [text EXCEPT ![Len(text)] = 63]
    ELSE IF text # <<>> /\ text[Len(text)] = 63 THEN [text EXCEPT ![Len(text)] = 33]
    ELSE Append(text, 33)

FirstText(nodes) ==
    CHOOSE n \in NodeIds(nodes) :
        /\ nodes[n].kind = "Text"
        /\ \A m \in 1..(n - 1) : nodes[m].kind # "Text"

\* JsRuntime::execute on a DOM whose script mutates: the DOM after the run
JsRuntimeExecute(dom) ==
    LET t == FirstText(dom.nodes)
    IN  [dom EXCEPT !.nodes[t].text = MarkText(dom.nodes[t].text),
                    !.script.left = IF dom.script.loops THEN 0 ELSE dom.script.left - 1]

(***************************************************************************)
(* The page (renderer/page.rs).                                            *)
(*                                                                         *)
(* page   the fields of the Page struct                                    *)
(* heap   the DOMs that some Rc still refers to, by address; the page      *)
(*        refers to a DOM through its frame, through the node references   *)
(*        of its box tree and through its focused input                    *)
(* pc     where the one thread of the program is: "idle" between two       *)
(*        operations, "loop" at the test of the re-render loop of          *)
(*        receive_response                                                 *)
(* calls  how often the running (or last) operation has parsed HTML, run   *)
(*        the script, built the box tree and painted                       *)
(* last   the running (or last) operation, its argument and its result     *)
(* cs     the ComputedStyle under resolution (layout/computed_style.rs)    *)
(* app    the UI object that drives the page (ui/*/src/app.rs)             *)
(***************************************************************************)
VARIABLES page, heap, pc, calls, last, cs, app

vars == <<page, heap, pc, calls, last, cs, app>>

\* addresses of DOMs; at most four DOMs are alive at once
DomIds == 1..4

\* Page::new
PageNew ==
    [frame |-> None, style |-> None, layout_view |-> None, subresources |-> <<>>,
     display_items |-> <<>>, modified |-> FALSE, focused_input |-> None]

NoCalls == [parse |-> 0, script |-> 0, layout |-> 0, paint |-> 0]
\* the counts stop at a cap no terminating run reaches
CallCap == MaxMutations + 2
Counted(c, what) == [c EXCEPT ![what] = IF c[what] < CallCap THEN c[what] + 1 ELSE c[what]]

\* the DOMs the page still refers to
Live(p) ==
    (IF IsSome(p.frame) THEN {Unwrap(p.frame)} ELSE {})
    \cup (IF IsSome(p.layout_view) THEN {Unwrap(p.layout_view).dom} ELSE {})
    \cup (IF IsSome(p.focused_input) THEN {Unwrap(p.focused_input).dom} ELSE {})

\* a free address for a new DOM
Alloc(h) == CHOOSE i \in DomIds : h[i] = None

\* The address of a DOM cannot be observed, so the model keeps the live DOMs
\* at the first addresses: that of the frame first, then that of the box
\* tree, then that of the focused input.  A DOM no Rc refers to is freed.
LiveOrder(p) ==
    LET a == IF IsSome(p.frame) THEN <<Unwrap(p.frame)>> ELSE <<>>
        b == IF IsSome(p.layout_view) /\ Unwrap(p.layout_view).dom \notin Live([p EXCEPT
                    !.layout_view = None, !.focused_input = None])
             THEN Append(a, Unwrap(p.layout_view).dom) ELSE a
    IN  IF IsSome(p.focused_input) /\ Unwrap(p.focused_input).dom \notin Live([p EXCEPT
                    !.focused_input = None])
        THEN Append(b, Unwrap(p.focused_input).dom) ELSE b

Moved(order, id) == CHOOSE i \in 1..Len(order) : order[i] = id

Collect(w) ==
    LET order == LiveOrder(w.page)
    IN  [page |-> [w.page EXCEPT
                     !.frame = IF IsSome(@) THEN Some(Moved(order, Unwrap(@))) ELSE @,
                     !.layout_view =
                        IF IsSome(@) THEN Some([Unwrap(@) EXCEPT !.dom = Moved(order, @)])
                        ELSE @,
                     !.focused_input =
                        IF IsSome(@) THEN Some([Unwrap(@) EXCEPT !.dom = Moved(order, @)])
                        ELSE @],
         heap |-> [i \in DomIds |-> IF i <= Len(order) THEN w.heap[order[i]] ELSE None],
         calls |-> w.calls]

\* a DOM that no Rc refers to any more is freed
Dropped(w) == [w EXCEPT !.heap = [i \in DomIds |-> IF i \in Live(w.page) THEN @[i] ELSE None]]

\* create_frame that sets the frame and leaves the stylesheet as it was
create_frame_without_style(w, html) ==
    LET id == Alloc(w.heap)
        dom == construct_tree(html)
    IN  Dropped([page |-> [w.page EXCEPT !.frame = Some(id)],
                 heap |-> [w.heap EXCEPT ![id] = Some(dom)],
                 calls |-> Counted(w.calls, "parse")])

\* Page::create_frame; assigning self.frame drops the frame held before
create_frame(w, html) ==
    LET id == Alloc(w.heap)
        dom == construct_tree(html)
    IN  Dropped([page |-> [w.page EXCEPT
                             !.frame = Some(id),
                             !.style = Some(parse_stylesheet(get_style_content(dom)))],
                 heap |-> [w.heap EXCEPT ![id] = Some(dom)],
                 calls |-> Counted(w.calls, "parse")])

\* Page::execute_js
execute_js(w) ==
    IF ~IsSome(w.page.frame) THEN w
    ELSE LET id == Unwrap(w.page.frame)
             dom == Unwrap(w.heap[id])
             mutates == ScriptMutates(get_js_content(dom))
         IN  [page |-> [w.page EXCEPT !.modified = mutates],
              heap |-> IF mutates
                       THEN [w.heap EXCEPT ![id] = Some(JsRuntimeExecute(dom))]
                       ELSE w.heap,
              calls |-> Counted(w.calls, "script")]

\* Page::set_layout_view
set_layout_view(w) ==
    IF ~IsSome(w.page.frame) \/ ~IsSome(w.page.style) THEN w
    ELSE LET id == Unwrap(w.page.frame)
         IN  [w EXCEPT !.page.layout_view =
                          Some(LayoutViewNew(id, Unwrap(w.heap[id]), Unwrap(w.page.style))),
                       !.calls = Counted(w.calls, "layout")]

\* paint_tree painting only when the display list is empty
paint_tree_once(w) ==
    IF IsSome(w.page.layout_view) /\ w.page.display_items = <<>>
    THEN LET view == Unwrap(w.page.layout_view)
         IN  [w EXCEPT !.page.display_items = paint(view, Unwrap(w.heap[view.dom])),
                       !.calls = Counted(w.calls, "paint")]
    ELSE w

\* paint_tree adding the items to the display list instead of replacing it
paint_tree_appending(w) ==
    IF IsSome(w.page.layout_view)
    THEN LET view == Unwrap(w.page.layout_view)
         IN  [w EXCEPT !.page.display_items = @ \o paint(view, Unwrap(w.heap[view.dom])),
                       !.calls = Counted(w.calls, "paint")]
    ELSE w

\* Page::paint_tree
paint_tree(w) ==
    IF IsSome(w.page.layout_view)
    THEN LET view == Unwrap(w.page.layout_view)
         IN  [w EXCEPT !.page.display_items = paint(view, Unwrap(w.heap[view.dom])),
                       !.calls = Counted(w.calls, "paint")]
    ELSE w

\* the node a focused_input reference or a LayoutObject refers to
NodeAt(h, dom, n) == Unwrap(h[dom]).nodes[n]
IsInput(node) == node.kind = "Element" /\ node.tag = "input"
IsAnchor(node) == node.kind = "Element" /\ node.tag = "a"

\* clicked without the early return of the input branch (page.rs, 98)
clicked_navigates_input(w, position) ==
    IF ~IsSome(w.page.layout_view) THEN [w |-> w, ret |-> None]
    ELSE LET view == Unwrap(w.page.layout_view)
             hit == find_node_by_position(view, position)
         IN  IF ~IsSome(hit) THEN [w |-> w, ret |-> None]
             ELSE LET n == Unwrap(hit)
                      parent == view.objects[n].parent
                  IN  [w |-> [w EXCEPT !.page.focused_input = None],
                       ret |-> IF parent # 0 /\ IsAnchor(NodeAt(w.heap, view.dom, parent))
                               THEN get_attribute(NodeAt(w.heap, view.dom, parent), "href")
                               ELSE None]

\* clicked taking the href of the hit node when that is itself an anchor
clicked_anchor_itself(w, position) ==
    IF ~IsSome(w.page.layout_view) THEN [w |-> w, ret |-> None]
    ELSE LET view == Unwrap(w.page.layout_view)
             hit == find_node_by_position(view, position)
         IN  IF ~IsSome(hit) THEN [w |-> w, ret |-> None]
             ELSE LET n == Unwrap(hit)
                      parent == view.objects[n].parent
                  IN  IF IsInput(NodeAt(w.heap, view.dom, n))
                      THEN [w |-> [w EXCEPT !.page.focused_input =
                                                Some([dom |-> view.dom, node |-> n])],
                            ret |-> None]
                      ELSE [w |-> [w EXCEPT !.page.focused_input = None],
                            ret |-> IF IsAnchor(NodeAt(w.heap, view.dom, n))
                                    THEN get_attribute(NodeAt(w.heap, view.dom, n), "href")
                                    ELSE IF parent # 0
                                            /\ IsAnchor(NodeAt(w.heap, view.dom, parent))
                                    THEN get_attribute(NodeAt(w.heap, view.dom, parent), "href")
                                    ELSE None]

\* clicked answering the empty target, not none, when there is no box tree
clicked_empty_target(w, position) ==
    IF ~IsSome(w.page.layout_view) THEN [w |-> w, ret |-> Some("")]
    ELSE LET view == Unwrap(w.page.layout_view)
             hit == find_node_by_position(view, position)
         IN  IF ~IsSome(hit) THEN [w |-> w, ret |-> None]
             ELSE LET n == Unwrap(hit)
                      parent == view.objects[n].parent
                  IN  IF IsInput(NodeAt(w.heap, view.dom, n))
                      THEN [w |-> [w EXCEPT !.page.focused_input =
                                                Some([dom |-> view.dom, node |-> n])],
                            ret |-> None]
                      ELSE [w |-> [w EXCEPT !.page.focused_input = None],
                            ret |-> IF parent # 0 /\ IsAnchor(NodeAt(w.heap, view.dom, parent))
                                    THEN get_attribute(NodeAt(w.heap, view.dom, parent), "href")
                                    ELSE None]

\* Page::clicked: the page afterwards and the value returned
clicked(w, position) ==
    IF ~IsSome(w.page.layout_view) THEN [w |-> w, ret |-> None]
    ELSE LET view == Unwrap(w.page.layout_view)
             hit == find_node_by_position(view, position)
         IN  IF ~IsSome(hit) THEN [w |-> w, ret |-> None]
             ELSE LET n == Unwrap(hit)
                      parent == view.objects[n].parent
                  IN  IF IsInput(NodeAt(w.heap, view.dom, n))
                      THEN [w |-> [w EXCEPT !.page.focused_input =
                                                Some([dom |-> view.dom, node |-> n])],
                            ret |-> None]
                      ELSE [w |-> [w EXCEPT !.page.focused_input = None],
                            ret |-> IF parent # 0 /\ IsAnchor(NodeAt(w.heap, view.dom, parent))
                                    THEN get_attribute(NodeAt(w.heap, view.dom, parent), "href")
                                    ELSE None]

\* Element::get_value().unwrap_or_default()
ValueOrDefault(value) == IF IsSome(value) THEN Unwrap(value) ELSE <<>>

\* the edit with backspace taking the first character, not the last
EditedValue_front(value, key) ==
    LET current_value == ValueOrDefault(value)
    IN  IF key = KEY_DELETE \/ key = KEY_BACKSPACE
        THEN (IF current_value # <<>> THEN Some(Tail(current_value)) ELSE value)
        ELSE IF is_ascii_graphic(key) \/ key = KEY_SPACE
        THEN Some(Append(current_value, key))
        ELSE value

\* the edit with set_value called outside the is_empty test (page.rs, 131-134)
EditedValue_always_set(value, key) ==
    LET current_value == ValueOrDefault(value)
    IN  IF key = KEY_DELETE \/ key = KEY_BACKSPACE
        THEN (IF current_value # <<>>
              THEN Some(SubSeq(current_value, 1, Len(current_value) - 1))
              ELSE Some(<<>>))
        ELSE IF is_ascii_graphic(key) \/ key = KEY_SPACE
        THEN Some(Append(current_value, key))
        ELSE value

\* the value of the focused input after a key (page.rs, 125-140)
EditedValue(value, key) ==
    LET current_value == ValueOrDefault(value)
    IN  IF key = KEY_DELETE \/ key = KEY_BACKSPACE
        THEN (IF current_value # <<>>
              THEN Some(SubSeq(current_value, 1, Len(current_value) - 1))
              ELSE value)
        ELSE IF is_ascii_graphic(key) \/ key = KEY_SPACE
        THEN Some(Append(current_value, key))
        ELSE value

\* handle_input ending in true, not false, when nothing is focused
handle_input_always_true(w, key) ==
    IF IsSome(w.page.focused_input)
    THEN LET f == Unwrap(w.page.focused_input)
         IN  IF IsInput(NodeAt(w.heap, f.dom, f.node))
             THEN [w |-> [w EXCEPT !.heap[f.dom] =
                              Some([Unwrap(w.heap[f.dom]) EXCEPT !.value[f.node] =
                                       EditedValue(Unwrap(w.heap[f.dom]).value[f.node], key)])],
                   ret |-> TRUE]
             ELSE [w |-> w, ret |-> TRUE]
    ELSE [w |-> w, ret |-> TRUE]

\* handle_input answering whether the key changed the value
handle_input_edit_applied(w, key) ==
    IF IsSome(w.page.focused_input)
    THEN LET f == Unwrap(w.page.focused_input)
             value == Unwrap(w.heap[f.dom]).value[f.node]
         IN  IF IsInput(NodeAt(w.heap, f.dom, f.node))
             THEN [w |-> [w EXCEPT !.heap[f.dom] =
                              Some([Unwrap(w.heap[f.dom]) EXCEPT !.value[f.node] =
                                       EditedValue(value, key)])],
                   ret |-> EditedValue(value, key) # value]
             ELSE [w |-> w, ret |-> FALSE]
    ELSE [w |-> w, ret |-> FALSE]

\* handle_input building the box tree and painting again after the edit
handle_input_refreshing(w, key) ==
    IF IsSome(w.page.focused_input)
    THEN LET f == Unwrap(w.page.focused_input)
         IN  IF IsInput(NodeAt(w.heap, f.dom, f.node))
             THEN [w |-> paint_tree(set_layout_view(
                            [w EXCEPT !.heap[f.dom] =
                                Some([Unwrap(w.heap[f.dom]) EXCEPT !.value[f.node] =
                                         EditedValue(Unwrap(w.heap[f.dom]).value[f.node], key)])])),
                   ret |-> TRUE]
             ELSE [w |-> w, ret |-> FALSE]
    ELSE [w |-> w, ret |-> FALSE]

\* Page::handle_input: the page afterwards and the value returned
handle_input(w, key) ==
    IF IsSome(w.page.focused_input)
    THEN LET f == Unwrap(w.page.focused_input)
         IN  IF IsInput(NodeAt(w.heap, f.dom, f.node))
             THEN [w |-> [w EXCEPT !.heap[f.dom] =
                              Some([Unwrap(w.heap[f.dom]) EXCEPT !.value[f.node] =
                                       EditedValue(Unwrap(w.heap[f.dom]).value[f.node], key)])],
                   ret |-> TRUE]
             ELSE [w |-> w, ret |-> FALSE]
    ELSE [w |-> w, ret |-> FALSE]

\* refresh_display laying out an empty document when no response has come
refresh_display_empty_document(w) ==
    IF IsSome(w.page.frame) THEN paint_tree(set_layout_view(w))
    ELSE paint_tree([w EXCEPT !.page.layout_view =
                                 Some([dom |-> Alloc(w.heap), objects |-> <<>>]),
                              !.heap[Alloc(w.heap)] =
                                 Some(construct_tree([nodes |-> <<DocumentNode>>, css |-> <<>>,
                                                      script |-> NoScript])),
                              !.calls = Counted(w.calls, "layout")])

\* refresh_display running the scripts again before layout
refresh_display_rerun(w) == paint_tree(set_layout_view(execute_js(w)))

\* Page::refresh_display
refresh_display(w) == paint_tree(set_layout_view(w))

\* Page::clear_display_items
clear_display_items(w) == [w EXCEPT !.page.display_items = <<>>]

\* Subresource::new and Page::push_url_for_subresource
SubresourceNew(src) == [src |-> src, resource |-> ""]
push_url_for_subresource(w, src) ==
    [w EXCEPT !.page.subresources = Append(w.page.subresources, SubresourceNew(src))]

\* subresource answering a miss with the URL asked for
RECURSIVE subresource_echo(_, _)
subresource_echo(subresources, src) ==
    IF subresources = <<>> THEN src
    ELSE IF Head(subresources).src = src THEN Head(subresources).resource
    ELSE subresource_echo(Tail(subresources), src)

\* Page::subresource
RECURSIVE subresource(_, _)
subresource(subresources, src) ==
    IF subresources = <<>> THEN ""
    ELSE IF Head(subresources).src = src THEN Head(subresources).resource
    ELSE subresource(Tail(subresources), src)

\* receive_response up to the test of its loop (page.rs, 162-172)
receive_response_start(w, body) == execute_js(create_frame(w, body))

\* the test of the loop with a cap on the number of parses
loop_continues_capped(w) == w.page.modified /\ w.calls.parse < 2

\* the test of the loop of receive_response (page.rs, 174)
loop_continues(w) == w.page.modified

\* one turn of the loop of receive_response (page.rs, 174-187)
receive_response_loop(w) ==
    LET modified_html == dom_to_html(Unwrap(w.heap[Unwrap(w.page.frame)]))
        framed == create_frame(w, modified_html)
    IN  execute_js([framed EXCEPT !.page.modified = FALSE])

\* receive_response painting before it builds the box tree
receive_response_finish_stale(w) == set_layout_view(paint_tree(w))

\* receive_response after its loop (page.rs, 189-206)
receive_response_finish(w) == paint_tree(set_layout_view(w))

\* the loop of receive_response run until its test fails
RECURSIVE receive_response_loops(_)
receive_response_loops(w) ==
    IF loop_continues(w) THEN receive_response_loops(receive_response_loop(w)) ELSE w

\* Page::receive_response from call to return, on a response on which it
\* returns
receive_response(w, body) ==
    receive_response_finish(receive_response_loops(receive_response_start(w, body)))

\* WasabiUI::update_ui, as far as the page goes: the display list is drawn
\* item by item, and the source of every Img item is pushed as a subresource
RECURSIVE UpdateUiFrom(_, _)
UpdateUiFrom(w, items) ==
    IF items = <<>> THEN w
    ELSE UpdateUiFrom(IF Head(items).item = "Img"
                      THEN push_url_for_subresource(w, Head(items).src)
                      ELSE w,
                      Tail(items))

update_ui(w) == UpdateUiFrom(w, w.page.display_items)

\* what handle_url gives start_navigation: Ok(response) or Err(error)
Ok(response) == [ok |-> TRUE, response |-> Some(response), error |-> None]
Err(error) == [ok |-> FALSE, response |-> None, error |-> Some(error)]

\* start_navigation clearing the display list before it asks for the URL
start_navigation_clears_first(w, ui, result) ==
    IF result.ok
    THEN LET received == receive_response(clear_display_items(w), Unwrap(result.response))
         IN  [w |-> IF ui = "wasabi" THEN update_ui(received) ELSE received,
              ret |-> None]
    ELSE [w |-> clear_display_items(w), ret |-> result.error]

\* start_navigation emptying the display list after the page has received
\* the response, not before
start_navigation_clears_last(w, ui, result) ==
    IF result.ok
    THEN LET received == clear_display_items(receive_response(w, Unwrap(result.response)))
         IN  [w |-> IF ui = "wasabi" THEN update_ui(received) ELSE received,
              ret |-> None]
    ELSE [w |-> w, ret |-> result.error]

\* Tui::start_navigation and WasabiUI::start_navigation: the page afterwards
\* and the error returned, if any.  The framebuffer UI clears its window
\* first and redraws after a response; the window is not part of the page.
start_navigation(w, ui, result) ==
    IF result.ok
    THEN LET received == receive_response(clear_display_items(w), Unwrap(result.response))
         IN  [w |-> IF ui = "wasabi" THEN update_ui(received) ELSE received,
              ret |-> None]
    ELSE [w |-> w, ret |-> result.error]

(***************************************************************************)
(* The URL handler (src/saba_wasabi.rs, src/saba_cui.rs: the two are the   *)
(* same function).  Its collaborators, the URL parser and the HTTP client, *)
(* answer as their environment makes them: what they answer during one     *)
(* call is an input of the call.                                           *)
(***************************************************************************)
\* HttpResponse, as far as handle_url and the page read it: the status
\* code, the value of its Location header if it has one, and the body
HttpResponseNew(status_code, location, body) ==
    [status_code |-> status_code, location |-> location, body |-> body]

\* the pages the network serves
FormBody == [nodes |-> DocForm, css |-> <<>>, script |-> NoScript]
LinksBody == [nodes |-> DocLinks, css |-> <<>>, script |-> NoScript]

\* the responses the network gives: found, not found and redirect, with
\* and without a Location header
Responses ==
    { HttpResponseNew(200, None, FormBody),
      HttpResponseNew(200, Some("/x"), LinksBody),
      HttpResponseNew(404, None, FormBody),
      HttpResponseNew(302, None, LinksBody),
      HttpResponseNew(302, Some("/x"), FormBody) }

\* What happens around one call of handle_url.  `parsed`: Url::parse gives
\* Ok; `port_is_u16`: the port of the parsed URL is a u16 number;
\* `first`: what HttpClient::get answers to the first request, None for an
\* error; `redirect_port_is_u16`: the port of the Url made from the
\* Location value, which is never parsed, is a u16 number; `second`: the
\* answer to the request to the Location.
AllEnvironments ==
    [parsed : BOOLEAN, port_is_u16 : BOOLEAN, first : {None} \cup {Some(r) : r \in Responses},
     redirect_port_is_u16 : BOOLEAN, second : {None} \cup {Some(r) : r \in Responses}]

\* the request to the Location is reached: the URL has parsed, its port is
\* a number, the first answer is a 302 with a Location
RedirectReached(env) ==
    /\ env.parsed
    /\ env.port_is_u16
    /\ IsSome(env.first)
    /\ IF IsSome(env.first)
       THEN Unwrap(env.first).status_code = 302 /\ IsSome(Unwrap(env.first).location)
       ELSE FALSE

\* One environment for each course a call can take: what comes after the
\* point where the call ends is never asked for, and is left at one value.
Environments ==
    {env \in AllEnvironments :
        /\ ~env.parsed => env.port_is_u16
        /\ ~(env.parsed /\ env.port_is_u16) => env.first = None
        /\ ~RedirectReached(env) => env.redirect_port_is_u16
        /\ ~(RedirectReached(env) /\ env.redirect_port_is_u16) => env.second = None}

\* handle_url returned `result` after `requests` calls of HttpClient::get
Returns(result, requests) == [aborted |-> FALSE, result |-> result, requests |-> requests]
\* expect() on the port stopped the program after `requests` calls
Aborts(requests) == [aborted |-> TRUE, result |-> Err("abort"), requests |-> requests]

\* handle_url that follows the Location of the second response too
handle_url_follows_twice(env) ==
    IF ~env.parsed THEN Returns(Err("UnexpectedInput"), 0)
    ELSE IF ~env.port_is_u16 THEN Aborts(0)
    ELSE IF env.first = None THEN Returns(Err("Network"), 1)
    ELSE LET res == Unwrap(env.first)
         IN  IF res.status_code = 302
             THEN IF res.location = None THEN Returns(Ok(res), 1)
                  ELSE IF ~env.redirect_port_is_u16 THEN Aborts(1)
                  ELSE IF env.second = None THEN Returns(Err("Network"), 2)
                  ELSE LET redirect_res == Unwrap(env.second)
                       IN  IF redirect_res.status_code = 302 /\ IsSome(redirect_res.location)
                           THEN Returns(Ok(res), 3)
                           ELSE Returns(Ok(redirect_res), 2)
             ELSE Returns(Ok(res), 1)

\* handle_url that reports a failed redirect request as unexpected input
handle_url_one_error_kind(env) ==
    IF ~env.parsed THEN Returns(Err("UnexpectedInput"), 0)
    ELSE IF ~env.port_is_u16 THEN Aborts(0)
    ELSE IF env.first = None THEN Returns(Err("Network"), 1)
    ELSE LET res == Unwrap(env.first)
         IN  IF res.status_code = 302
             THEN IF res.location = None THEN Returns(Ok(res), 1)
                  ELSE IF ~env.redirect_port_is_u16 THEN Aborts(1)
                  ELSE IF env.second = None THEN Returns(Err("UnexpectedInput"), 2)
                  ELSE Returns(Ok(Unwrap(env.second)), 2)
             ELSE Returns(Ok(res), 1)

\* handle_url: the result, and how many requests were sent
handle_url(env) ==
    IF ~env.parsed THEN Returns(Err("UnexpectedInput"), 0)
    ELSE IF ~env.port_is_u16 THEN Aborts(0)
    ELSE IF env.first = None THEN Returns(Err("Network"), 1)
    ELSE LET res == Unwrap(env.first)
         IN  IF res.status_code = 302
             THEN IF res.location = None THEN Returns(Ok(res), 1)
                  ELSE IF ~env.redirect_port_is_u16 THEN Aborts(1)
                  ELSE IF env.second = None THEN Returns(Err("Network"), 2)
                  ELSE Returns(Ok(Unwrap(env.second)), 2)
             ELSE Returns(Ok(res), 1)

(***************************************************************************)
(* Actions: the operations the UI layer calls on the page, one at a time.  *)
(***************************************************************************)
\* The ComputedStyle under resolution: the node it belongs to, its fields,
\* the resolved style of the parent node handed to defaulting (if any), and
\* how far it has come: "new" (created, declarations being layered on),
\* "defaulted", or "aborted" with the operation whose expect() failed.
\* `declared` is the style as the declarations left it, before defaulting;
\* `parent_unset` are the inherited properties no declaration had set on
\* the parent; `parsed` is the result of DisplayType::from_str on the
\* display declaration layered on this style, until defaulting.
NotParsed == [input |-> "", ok |-> FALSE, value |-> ""]

Unset(self) == {f \in {"background_color", "color", "font_size", "text_decoration"} :
                   ~IsSome(self[f])}

Declared(self) == {f \in StyleFields : IsSome(self[f])}

StyleNew(node, parent_style, parent_unset) ==
    [node |-> node, style |-> ComputedStyleNew, declared |-> ComputedStyleNew,
     parent |-> parent_style, parent_unset |-> parent_unset,
     status |-> "new", where |-> "", parsed |-> NotParsed]

\* after an abort the process is gone and nothing of the style is left
StyleAborted(where) ==
    [StyleNew(DocumentNode, None, {}) EXCEPT !.status = "aborted", !.where = where]

\* The UI object and what it keeps of the event handled last.
\* Link::new
LinkNew(text, destination) == [text |-> text, destination |-> destination]

\* KeyCode of the terminal UI
KeyCode(code, c) == [code |-> code, c |-> c]

NoEvent == [kind |-> "none", key |-> KeyCode("", 0), button |-> FALSE, position |-> <<0, 0>>]
KeyEvent(key) == [NoEvent EXCEPT !.kind = "key", !.key = key]
MouseEvent(button, position) ==
    [NoEvent EXCEPT !.kind = "mouse", !.button = button, !.position = position]

\* no navigation was started
NoFetch ==
    [navigations |-> 0, destination |-> <<>>, failure |-> "none", error |-> None,
     requests |-> 0, status_code |-> 0, body |-> None,
     first |-> None, second |-> None, response |-> None]

\* the call clicked(position) of the handler and the destination it returned
ClickOf(position, target) == [position |-> position, target |-> target]

\* WasabiUI::new, Tui::new
AppNew(ui) ==
    [ui |-> ui, input_url |-> <<>>, input_mode |-> "Normal", focus |-> None,
     status |-> "running", event |-> NoEvent, fetch |-> NoFetch, page_calls |-> <<>>,
     click |-> None]

\* the record of a call: the operation, its argument (a position, a key, a
\* response body or a URL) and its result (the target clicked returns or the
\* resource subresource returns, the flag handle_input returns, the error
\* start_navigation returns); before the first call, the construction of
\* the page
NoCall ==
    [op |-> "new", position |-> None, key |-> None, body |-> None, src |-> None,
     target |-> None, handled |-> FALSE, error |-> None]

World == [page |-> page, heap |-> heap, calls |-> NoCalls]

\* where clicks land: in and around the boxes of the documents
Positions == {<<0, 0>>, <<1, 0>>, <<2, 0>>, <<4, 0>>, <<5, 0>>, <<0, 2>>, <<0, 3>>}

\* the page, the DOMs and the counts after an operation
PageBecomes(w) ==
    LET after == Collect(w)
    IN  /\ page' = after.page
        /\ heap' = after.heap
        /\ calls' = after.calls

Becomes(w) == PageBecomes(w) /\ UNCHANGED <<cs, app>>

Clicked(position) ==
    /\ pc = "idle"
    /\ LET r == clicked(World, position)
       IN  /\ Becomes(r.w)
           /\ last' = [NoCall EXCEPT !.op = "clicked", !.position = Some(position),
                                      !.target = r.ret]
    /\ UNCHANGED pc

\* a value holds at most MaxValueLen characters
CanType(key) ==
    IF IsSome(page.focused_input) /\ (is_ascii_graphic(key) \/ key = KEY_SPACE)
    THEN LET f == Unwrap(page.focused_input)
         IN  Len(ValueOrDefault(Unwrap(heap[f.dom]).value[f.node])) < MaxValueLen
    ELSE TRUE

HandleInput(key) ==
    /\ pc = "idle"
    /\ CanType(key)
    /\ LET r == handle_input(World, key)
       IN  /\ Becomes(r.w)
           /\ last' = [NoCall EXCEPT !.op = "handle_input", !.key = Some(key),
                                      !.handled = r.ret]
    /\ UNCHANGED pc

RefreshDisplay ==
    /\ pc = "idle"
    /\ Becomes(refresh_display(World))
    /\ last' = [NoCall EXCEPT !.op = "refresh_display"]
    /\ UNCHANGED pc

ClearDisplayItems ==
    /\ pc = "idle"
    /\ Becomes(clear_display_items(World))
    /\ last' = [NoCall EXCEPT !.op = "clear_display_items"]
    /\ UNCHANGED pc

\* receive_response, one turn of its loop at a time: the loop has no bound
ReceiveResponseStart(body) ==
    /\ pc = "idle"
    /\ Becomes(receive_response_start(World, body))
    /\ last' = [NoCall EXCEPT !.op = "receive_response", !.body = Some(body)]
    /\ pc' = "loop"

ReceiveResponseLoop ==
    /\ pc = "loop"
    /\ loop_continues([page |-> page, heap |-> heap, calls |-> calls])
    /\ Becomes(receive_response_loop([page |-> page, heap |-> heap, calls |-> calls]))
    /\ UNCHANGED <<pc, last>>

ReceiveResponseFinish ==
    /\ pc = "loop"
    /\ ~loop_continues([page |-> page, heap |-> heap, calls |-> calls])
    /\ Becomes(receive_response_finish([page |-> page, heap |-> heap, calls |-> calls]))
    /\ pc' = "idle"
    /\ UNCHANGED last

Init ==
    /\ page = PageNew
    /\ heap = [i \in DomIds |-> None]
    /\ pc = "idle"
    /\ calls = NoCalls
    /\ last = NoCall
    /\ cs = StyleNew(DocumentNode, None, {})
    /\ app = AppNew("wasabi")

Next ==
    \/ \E position \in Positions : Clicked(position)
    \/ \E key \in Keys : HandleInput(key)
    \/ RefreshDisplay
    \/ ClearDisplayItems
    \/ \E body \in Bodies : ReceiveResponseStart(body)
    \/ ReceiveResponseLoop
    \/ ReceiveResponseFinish

Spec == Init /\ [][Next]_vars

\* What a step of a running call does to the program counter and to the
\* counts: a turn of the loop parses once more and runs the script once
\* more and stays in the loop, the return builds the box tree, paints and
\* leaves.  While a call runs every step is such a step (RunningCallAdvances).
Advance ==
    /\ pc = "loop"
    /\ IF loop_continues([page |-> page, heap |-> heap, calls |-> calls])
       THEN pc' = "loop" /\ calls' = Counted(Counted(calls, "parse"), "script")
       ELSE pc' = "idle" /\ calls' = Counted(Counted(calls, "layout"), "paint")

\* A call runs to completion: the one thread of the program does not stop
\* between two steps of a call, so no step of a running call is put off for
\* ever (as long as the counts move: they stop at CallCap, which only a call
\* that never returns reaches).  Nothing is asked of the caller between two
\* calls.
FairSpec == Init /\ [][Next]_vars /\ WF_<<pc, calls>>(Advance)

(***************************************************************************)
(* The page as the two user interfaces drive it (ui/cui/src/app.rs,        *)
(* ui/wasabi/src/app.rs): a navigation is one call of start_navigation,    *)
(* which may fail before it reaches the page.                              *)
(***************************************************************************)
\* the responses a navigation can bring
UiBodies ==
    { [nodes |-> DocForm, css |-> <<>>, script |-> NoScript],
      [nodes |-> DocImages, css |-> <<>>, script |-> NoScript],
      [nodes |-> DocWide, css |-> CssWide, script |-> [left |-> 1, loops |-> FALSE]] }

\* what handle_url can answer: a response, a URL it cannot parse, no network
UiResults == {Ok(body) : body \in UiBodies} \cup {Err("UnexpectedInput"), Err("Network")}

\* clicks on the first text and on the input of the form
UiPositions == {<<0, 0>>, <<0, 2>>}

StartNavigation(ui, result) ==
    /\ pc = "idle"
    /\ LET r == start_navigation(World, ui, result)
       IN  /\ Len(r.w.page.subresources) <= MaxSubresources
           /\ Becomes(r.w)
           /\ last' = [NoCall EXCEPT !.op = "start_navigation", !.body = result.response,
                                      !.error = r.ret]
    /\ UNCHANGED pc

PushUrlForSubresource(src) ==
    /\ pc = "idle"
    /\ Len(page.subresources) < MaxSubresources
    /\ Becomes(push_url_for_subresource(World, src))
    /\ last' = [NoCall EXCEPT !.op = "push_url_for_subresource", !.src = Some(src)]
    /\ UNCHANGED pc

Subresource(src) ==
    /\ pc = "idle"
    /\ Becomes(World)
    /\ last' = [NoCall EXCEPT !.op = "subresource", !.src = Some(src),
                               !.target = Some(subresource(page.subresources, src))]
    /\ UNCHANGED pc

UiNext ==
    \/ \E ui \in {"cui", "wasabi"}, result \in UiResults : StartNavigation(ui, result)
    \/ \E position \in UiPositions : Clicked(position)
    \/ \E key \in {97} : HandleInput(key)
    \/ RefreshDisplay
    \/ \E src \in Srcs : PushUrlForSubresource(src)
    \/ \E src \in Srcs : Subresource(src)

UiSpec == Init /\ [][UiNext]_vars

(***************************************************************************)
(* The style resolver (layout/computed_style.rs) on its own: a style is    *)
(* created for a node, declarations are layered on it with the setters,    *)
(* defaulting resolves it against the style of the parent, and it becomes  *)
(* the parent style of a child.                                            *)
(***************************************************************************)
\* the nodes a style is resolved for, below the document
StyleNodes ==
    {TextNode(1, <<84>>)} \cup
    {ElementNode(tag, 1, {}) : tag \in {"h1", "h2", "a", "p", "script", "style"}}

\* the values the declarations set, other than display; set_height,
\* set_margin and set_padding are set_width on another field
StyleValues ==
    [background_color |-> {"red"}, color |-> {"red"}, font_size |-> {"XLarge"},
     width |-> {3}]

\* the keywords of a display declaration: the three supported, and others
DisplayKeywords == {"block", "inline", "none", "flex", "Block"}

CanDeclare == cs.status = "new" /\ Cardinality(Declared(cs.style)) < MaxDeclarations

\* a declaration other than display is layered on the style
StyleSet(field, value) ==
    /\ CanDeclare
    /\ cs' = [cs EXCEPT !.style = set_property(cs.style, field, value),
                        !.declared = set_property(cs.style, field, value)]
    /\ UNCHANGED <<page, heap, pc, calls, last, app>>

\* a display declaration: the keyword goes through DisplayType::from_str and
\* set_display is called on Ok
StyleSetDisplay(keyword) ==
    /\ CanDeclare
    /\ LET r == DisplayTypeFromStr(keyword)
           after == IF r.ok THEN set_property(cs.style, "display", r.value) ELSE cs.style
       IN  cs' = [cs EXCEPT !.style = after, !.declared = after,
                            !.parsed = [input |-> keyword, ok |-> r.ok, value |-> r.value]]
    /\ UNCHANGED <<page, heap, pc, calls, last, app>>

\* ComputedStyle::defaulting(node, parent_style)
StyleDefaulting ==
    /\ cs.status = "new"
    /\ cs' = IF IsSome(DefaultingAbortsAt(cs.style, cs.parent))
             THEN StyleAborted("defaulting")
             ELSE [cs EXCEPT !.style = defaulting(cs.style, cs.node, cs.parent),
                             !.status = "defaulted", !.parsed = NotParsed]
    /\ UNCHANGED <<page, heap, pc, calls, last, app>>

\* a property accessor is called on the style
StyleRead(field) ==
    /\ cs.status \in {"new", "defaulted"}
    /\ cs' = IF Accessor(cs.style, field).aborted THEN StyleAborted(field) ELSE cs
    /\ UNCHANGED <<page, heap, pc, calls, last, app>>

\* a style is created for a child of the node, with this style as the
\* parent style
StyleChild(node) ==
    /\ cs.status \in {"new", "defaulted"}
    /\ cs' = StyleNew(node, Some(cs.style), Unset(cs.declared))
    /\ UNCHANGED <<page, heap, pc, calls, last, app>>

StyleNext ==
    \/ \E field \in DOMAIN StyleValues : \E value \in StyleValues[field] :
          StyleSet(field, value)
    \/ \E keyword \in DisplayKeywords : StyleSetDisplay(keyword)
    \/ StyleDefaulting
    \/ \E field \in StyleFields : StyleRead(field)
    \/ \E node \in StyleNodes : StyleChild(node)

StyleSpec == Init /\ [][StyleNext]_vars

(***************************************************************************)
(* The two user interfaces as event loops (ui/wasabi/src/app.rs,           *)
(* ui/cui/src/app.rs): an action is the handling of one event.  `app` is   *)
(* the UI object: which back-end it is, the address bar and its mode, the  *)
(* link the terminal UI has focused, whether the event loop still runs,    *)
(* and, of the event handled last: the event, the navigation it started    *)
(* and the operations it called on the page.                               *)
(***************************************************************************)
\* the Enter key as WasabiUI reads it
ENTER == 10

\* the window of the framebuffer UI on the screen, in cells of the model
\* (the constants are noli's; their values are scaled down)
WINDOW_INIT_X_POS == 1
WINDOW_INIT_Y_POS == 1
WINDOW_WIDTH == 5
WINDOW_HEIGHT == 6
TITLE_BAR_HEIGHT == 1
TOOLBAR_HEIGHT == 1

\* a String as its chars, for the URLs of the documents
Chars(string) ==
    CASE string = "/x" -> <<47, 120>>
      [] string = "/y" -> <<47, 121>>
      [] string = "/z" -> <<47, 122>>
      [] string = "/w" -> <<47, 119>>
      [] string = "http://example.com" ->
            <<104, 116, 116, 112, 58, 47, 47, 101, 120, 97, 109, 112, 108, 101, 46, 99,
              111, 109>>

\* what went wrong around a call of handle_url: the URL did not parse, the
\* first request failed, the request to the Location failed, or nothing
Failure(env) ==
    IF ~env.parsed THEN "parse"
    ELSE IF ~env.port_is_u16 THEN "none"
    ELSE IF env.first = None THEN "first"
    ELSE IF /\ Unwrap(env.first).status_code = 302
            /\ IsSome(Unwrap(env.first).location)
            /\ env.redirect_port_is_u16
            /\ env.second = None
    THEN "redirect"
    ELSE "none"

\* what handle_url gives start_navigation, as the page reads it: of a
\* response the page takes the body
ResultFor(h) == IF h.result.ok THEN Ok(Unwrap(h.result.response).body) ELSE h.result

\* the results handle_url can give
Results == {ResultFor(handle_url(env)) : env \in Environments}

\* what is known afterwards of a navigation to `destination` in the
\* environment env that returned the error `ret`, or none
FetchOf(destination, env, ret) ==
    LET h == handle_url(env)
    IN  [navigations |-> 1, destination |-> destination, failure |-> Failure(env),
         error |-> IF h.aborted THEN None ELSE ret,
         requests |-> h.requests,
         status_code |-> IF h.result.ok THEN Unwrap(h.result.response).status_code ELSE 0,
         body |-> ResultFor(h).response,
         first |-> env.first, second |-> env.second, response |-> h.result.response]

\* the operations start_navigation calls on the page
NavigationCalls(result) ==
    IF result.ok THEN <<"clear_display_items", "receive_response">> ELSE <<>>

\* the UI object after the event, when the handler called nothing else
Handled(event, changed) ==
    [changed EXCEPT !.event = event, !.fetch = NoFetch, !.page_calls = <<>>,
                    !.click = None]

\* The handler calls start_navigation(handle_url, destination) on the page
\* w, in some environment: `before` are the operations it has called on
\* the page already, `after` is the UI object if the call returns (with
\* the call of clicked the handler has made, if any),
\* `failed_ends_loop` whether an error it returns ends the event loop.
Navigates(w, event, destination, before, after, failed_ends_loop) ==
    \E result \in Results :
        LET r == start_navigation(w, app.ui, result)
            aborted == result = Err("abort")
        IN  \E env \in {e \in Environments : ResultFor(handle_url(e)) = result} :
                /\ PageBecomes(IF aborted THEN w ELSE r.w)
                /\ last' = [NoCall EXCEPT !.op = "start_navigation", !.error = r.ret]
                /\ app' = [after EXCEPT
                             !.event = event,
                             !.fetch = FetchOf(destination, env, r.ret),
                             !.page_calls = before \o NavigationCalls(result),
                             !.status = IF aborted THEN "aborted"
                                        ELSE IF IsSome(r.ret) /\ failed_ends_loop
                                        THEN "failed"
                                        ELSE "running"]

\* String::pop
Pop(string) == IF string = <<>> THEN string ELSE SubSeq(string, 1, Len(string) - 1)

\* handle_key_input staying in Editing mode on Enter with an empty URL buffer
WasabiKey_empty_enter_keeps_mode(c) ==
    /\ pc = "idle"
    /\ app.ui = "wasabi"
    /\ app.status = "running"
    /\ LET event == KeyEvent(KeyCode("Char", c))
       IN  IF app.input_mode = "Normal"
           THEN /\ app' = Handled(event, app)
                /\ UNCHANGED <<page, heap, calls, last>>
           ELSE IF c = ENTER
           THEN IF app.input_url = <<>>
                THEN /\ app' = Handled(event, app)
                     /\ UNCHANGED <<page, heap, calls, last>>
                ELSE Navigates(World, event, app.input_url, <<>>,
                               [app EXCEPT !.input_url = <<>>, !.input_mode = "Normal",
                                           !.click = None],
                               FALSE)
           ELSE IF c = KEY_DELETE \/ c = KEY_BACKSPACE
           THEN /\ app' = Handled(event, [app EXCEPT !.input_url = Pop(@)])
                /\ UNCHANGED <<page, heap, calls, last>>
           ELSE /\ Len(app.input_url) < MaxUrlLen
                /\ app' = Handled(event, [app EXCEPT !.input_url = Append(@, c)])
                /\ UNCHANGED <<page, heap, calls, last>>
    /\ UNCHANGED <<pc, cs>>

\* WasabiUI::handle_key_input when read_key gives the char c
WasabiKey(c) ==
    /\ pc = "idle"
    /\ app.ui = "wasabi"
    /\ app.status = "running"
    /\ LET event == KeyEvent(KeyCode("Char", c))
       IN  IF app.input_mode = "Normal"
           THEN /\ app' = Handled(event, app)
                /\ UNCHANGED <<page, heap, calls, last>>
           ELSE IF c = ENTER
           THEN IF app.input_url = <<>>
                THEN /\ app' = Handled(event, [app EXCEPT !.input_mode = "Normal"])
                     /\ UNCHANGED <<page, heap, calls, last>>
                ELSE Navigates(World, event, app.input_url, <<>>,
                               [app EXCEPT !.input_url = <<>>, !.input_mode = "Normal",
                                           !.click = None],
                               FALSE)
           ELSE IF c = KEY_DELETE \/ c = KEY_BACKSPACE
           THEN /\ app' = Handled(event, [app EXCEPT !.input_url = Pop(@)])
                /\ UNCHANGED <<page, heap, calls, last>>
           ELSE /\ Len(app.input_url) < MaxUrlLen
                /\ app' = Handled(event, [app EXCEPT !.input_url = Append(@, c)])
                /\ UNCHANGED <<page, heap, calls, last>>
    /\ UNCHANGED <<pc, cs>>

\* WasabiUI::handle_mouse_input when get_mouse_cursor_info gives an event
\* at `position` of the screen, with a button pressed or not
WasabiMouse(button, position) ==
    /\ pc = "idle"
    /\ app.ui = "wasabi"
    /\ app.status = "running"
    /\ LET event == MouseEvent(button, position)
           relative_pos == <<position[1] - WINDOW_INIT_X_POS, position[2] - WINDOW_INIT_Y_POS>>
           position_in_content_area ==
               <<relative_pos[1], relative_pos[2] - TITLE_BAR_HEIGHT - TOOLBAR_HEIGHT>>
           r == clicked(World, position_in_content_area)
       IN  IF ~button
           THEN /\ app' = Handled(event, app)
                /\ UNCHANGED <<page, heap, calls, last>>
           ELSE IF \/ relative_pos[1] < 0
                   \/ relative_pos[1] > WINDOW_WIDTH
                   \/ relative_pos[2] < 0
                   \/ relative_pos[2] > WINDOW_HEIGHT
           THEN /\ app' = Handled(event, app)
                /\ UNCHANGED <<page, heap, calls, last>>
           ELSE IF relative_pos[2] < TITLE_BAR_HEIGHT
           THEN /\ app' = Handled(event, [app EXCEPT !.input_mode = "Normal"])
                /\ UNCHANGED <<page, heap, calls, last>>
           ELSE IF /\ relative_pos[2] < TOOLBAR_HEIGHT + TITLE_BAR_HEIGHT
                   /\ relative_pos[2] >= TITLE_BAR_HEIGHT
           THEN /\ app' = Handled(event, [app EXCEPT !.input_url = <<>>,
                                                     !.input_mode = "Editing"])
                /\ UNCHANGED <<page, heap, calls, last>>
           ELSE IF IsSome(r.ret)
           THEN Navigates(r.w, event, Chars(Unwrap(r.ret)), <<"clicked">>,
                          [app EXCEPT !.input_mode = "Normal",
                                      !.input_url = Chars(Unwrap(r.ret)),
                                      !.click = Some(ClickOf(position_in_content_area,
                                                             r.ret))],
                          FALSE)
           ELSE /\ PageBecomes(r.w)
                /\ last' = [NoCall EXCEPT !.op = "clicked",
                                           !.position = Some(position_in_content_area),
                                           !.target = r.ret]
                /\ app' = [Handled(event, [app EXCEPT !.input_mode = "Normal"])
                             EXCEPT !.page_calls = <<"clicked">>,
                                    !.click = Some(ClickOf(position_in_content_area,
                                                           r.ret))]
    /\ UNCHANGED <<pc, cs>>

\* the destination Tui gives every link (app.rs:194)
LinkDestination == "http://example.com"

\* Tui::move_focus_to_up, from the item the loop has come to
RECURSIVE MoveFocusUpFrom(_, _, _)
MoveFocusUpFrom(items, focus, previous_link_item) ==
    IF items = <<>> THEN focus
    ELSE IF Head(items).item # "Text"
    THEN MoveFocusUpFrom(Tail(items), focus, previous_link_item)
    ELSE IF Unwrap(Head(items).style.text_decoration) # "Underline"
    THEN MoveFocusUpFrom(Tail(items), focus, previous_link_item)
    ELSE IF focus = None THEN focus
    ELSE IF Unwrap(focus).text = Head(items).text
    THEN previous_link_item
    ELSE MoveFocusUpFrom(Tail(items), focus, focus)

move_focus_to_up(items, focus) == MoveFocusUpFrom(items, focus, None)

\* Tui::move_focus_to_down, from the item the loop has come to
RECURSIVE MoveFocusDownFrom(_, _, _)
MoveFocusDownFrom(items, focus, focus_item_found) ==
    IF items = <<>> THEN focus
    ELSE IF Head(items).item # "Text"
    THEN MoveFocusDownFrom(Tail(items), focus, focus_item_found)
    ELSE IF Unwrap(Head(items).style.text_decoration) # "Underline"
    THEN MoveFocusDownFrom(Tail(items), focus, focus_item_found)
    ELSE IF focus = None THEN Some(LinkNew(Head(items).text, LinkDestination))
    ELSE IF focus_item_found THEN Some(LinkNew(Head(items).text, LinkDestination))
    ELSE MoveFocusDownFrom(Tail(items), focus,
                           /\ Unwrap(focus).text = Head(items).text
                           /\ Unwrap(focus).destination = LinkDestination)

move_focus_to_down(items, focus) == MoveFocusDownFrom(items, focus, FALSE)

\* the loop of Tui::run_app returning on 'q' in Editing mode too
CuiKey_quits_while_editing(key) ==
    /\ pc = "idle"
    /\ app.ui = "cui"
    /\ app.status = "running"
    /\ LET event == KeyEvent(key)
       IN  IF app.input_mode = "Normal"
           THEN CASE key.code = "Up" ->
                       /\ app' = Handled(event,
                              [app EXCEPT !.focus = move_focus_to_up(page.display_items, @)])
                       /\ UNCHANGED <<page, heap, calls, last>>
                  [] key.code = "Down" ->
                       /\ app' = Handled(event,
                              [app EXCEPT !.focus = move_focus_to_down(page.display_items, @)])
                       /\ UNCHANGED <<page, heap, calls, last>>
                  [] key.code = "Enter" ->
                       IF app.focus = None
                       THEN /\ app' = Handled(event, app)
                            /\ UNCHANGED <<page, heap, calls, last>>
                       ELSE Navigates(World, event, Chars(Unwrap(app.focus).destination),
                                      <<>>, app, FALSE)
                  [] key.code = "Char" /\ key.c = 101 ->
                       /\ app' = Handled(event, [app EXCEPT !.input_mode = "Editing"])
                       /\ UNCHANGED <<page, heap, calls, last>>
                  [] key.code = "Char" /\ key.c = 113 ->
                       /\ app' = Handled(event, [app EXCEPT !.status = "quit"])
                       /\ UNCHANGED <<page, heap, calls, last>>
                  [] OTHER ->
                       /\ app' = Handled(event, app)
                       /\ UNCHANGED <<page, heap, calls, last>>
           ELSE CASE key.code = "Char" /\ key.c = 113 ->
                       /\ app' = Handled(event, [app EXCEPT !.status = "quit"])
                       /\ UNCHANGED <<page, heap, calls, last>>
                  [] key.code = "Enter" ->
                       IF app.input_url = <<>>
                       THEN /\ app' = Handled(event, app)
                            /\ UNCHANGED <<page, heap, calls, last>>
                       ELSE Navigates(World, event, app.input_url, <<>>,
                                      [app EXCEPT !.input_url = <<>>], TRUE)
                  [] key.code = "Char" ->
                       /\ Len(app.input_url) < MaxUrlLen
                       /\ app' = Handled(event, [app EXCEPT !.input_url = Append(@, key.c)])
                       /\ UNCHANGED <<page, heap, calls, last>>
                  [] key.code = "Backspace" ->
                       /\ app' = Handled(event, [app EXCEPT !.input_url = Pop(@)])
                       /\ UNCHANGED <<page, heap, calls, last>>
                  [] key.code = "Esc" ->
                       /\ app' = Handled(event, [app EXCEPT !.input_mode = "Normal"])
                       /\ UNCHANGED <<page, heap, calls, last>>
                  [] OTHER ->
                       /\ app' = Handled(event, app)
                       /\ UNCHANGED <<page, heap, calls, last>>
    /\ UNCHANGED <<pc, cs>>

\* one turn of the loop of Tui::run_app when event::read gives the key
CuiKey(key) ==
    /\ pc = "idle"
    /\ app.ui = "cui"
    /\ app.status = "running"
    /\ LET event == KeyEvent(key)
       IN  IF app.input_mode = "Normal"
           THEN CASE key.code = "Up" ->
                       /\ app' = Handled(event,
                              [app EXCEPT !.focus = move_focus_to_up(page.display_items, @)])
                       /\ UNCHANGED <<page, heap, calls, last>>
                  [] key.code = "Down" ->
                       /\ app' = Handled(event,
                              [app EXCEPT !.focus = move_focus_to_down(page.display_items, @)])
                       /\ UNCHANGED <<page, heap, calls, last>>
                  [] key.code = "Enter" ->
                       IF app.focus = None
                       THEN /\ app' = Handled(event, app)
                            /\ UNCHANGED <<page, heap, calls, last>>
                       ELSE Navigates(World, event, Chars(Unwrap(app.focus).destination),
                                      <<>>, app, FALSE)
                  [] key.code = "Char" /\ key.c = 101 ->
                       /\ app' = Handled(event, [app EXCEPT !.input_mode = "Editing"])
                       /\ UNCHANGED <<page, heap, calls, last>>
                  [] key.code = "Char" /\ key.c = 113 ->
                       /\ app' = Handled(event, [app EXCEPT !.status = "quit"])
                       /\ UNCHANGED <<page, heap, calls, last>>
                  [] OTHER ->
                       /\ app' = Handled(event, app)
                       /\ UNCHANGED <<page, heap, calls, last>>
           ELSE CASE key.code = "Enter" ->
                       IF app.input_url = <<>>
                       THEN /\ app' = Handled(event, app)
                            /\ UNCHANGED <<page, heap, calls, last>>
                       ELSE Navigates(World, event, app.input_url, <<>>,
                                      [app EXCEPT !.input_url = <<>>], TRUE)
                  [] key.code = "Char" ->
                       /\ Len(app.input_url) < MaxUrlLen
                       /\ app' = Handled(event, [app EXCEPT !.input_url = Append(@, key.c)])
                       /\ UNCHANGED <<page, heap, calls, last>>
                  [] key.code = "Backspace" ->
                       /\ app' = Handled(event, [app EXCEPT !.input_url = Pop(@)])
                       /\ UNCHANGED <<page, heap, calls, last>>
                  [] key.code = "Esc" ->
                       /\ app' = Handled(event, [app EXCEPT !.input_mode = "Normal"])
                       /\ UNCHANGED <<page, heap, calls, last>>
                  [] OTHER ->
                       /\ app' = Handled(event, app)
                       /\ UNCHANGED <<page, heap, calls, last>>
    /\ UNCHANGED <<pc, cs>>

\* one turn of the loop of Tui::run_app when event::read gives a mouse event
CuiMouse(button, position) ==
    /\ pc = "idle"
    /\ app.ui = "cui"
    /\ app.status = "running"
    /\ app' = Handled(MouseEvent(button, position), app)
    /\ UNCHANGED <<page, heap, pc, calls, last, cs>>

\* the chars typed: a, Enter, Backspace, Delete
WasabiKeys == {97, ENTER, KEY_BACKSPACE, KEY_DELETE}

\* the keys typed: e, q, and the keys without a char
CuiKeys ==
    {KeyCode("Char", 101), KeyCode("Char", 113), KeyCode("Enter", 0),
     KeyCode("Backspace", 0), KeyCode("Esc", 0), KeyCode("Up", 0), KeyCode("Down", 0),
     KeyCode("Tab", 0)}

\* where the pointer is on the screen: left of the window, below it, in the
\* title bar, in the toolbar, and in the content area on the positions
\* (0, 0), (0, 2) and (0, 3) of the page
ScreenPositions == {<<0, 3>>, <<1, 8>>, <<1, 1>>, <<1, 2>>, <<1, 3>>, <<1, 5>>, <<1, 6>>}

\* the pointer with a button pressed, and moving with none pressed
MouseEvents ==
    {MouseEvent(TRUE, position) : position \in ScreenPositions}
    \cup {MouseEvent(FALSE, <<1, 3>>)}

\* either back-end has been started
AppInit ==
    /\ page = PageNew
    /\ heap = [i \in DomIds |-> None]
    /\ pc = "idle"
    /\ calls = NoCalls
    /\ last = NoCall
    /\ cs = StyleNew(DocumentNode, None, {})
    /\ app \in {AppNew("wasabi"), AppNew("cui")}

AppNext ==
    \/ \E c \in WasabiKeys : WasabiKey(c)
    \/ \E event \in MouseEvents : WasabiMouse(event.button, event.position)
    \/ \E key \in CuiKeys : CuiKey(key)
    \/ \E event \in {MouseEvent(TRUE, <<1, 5>>), MouseEvent(FALSE, <<1, 3>>)} :
          CuiMouse(event.button, event.position)

AppSpec == AppInit /\ [][AppNext]_vars

(***************************************************************************)
(* Properties.                                                             *)
(***************************************************************************)
\* the last operation called is `op` and it has returned
Returned(op) == pc = "idle" /\ last.op = op

\* the value of the input that a focused_input reference refers to
FocusedValue(h, f) == Unwrap(h[f.dom]).value[f.node]

\* the node a click at the position lands on in the page's box tree, if any;
\* clicked leaves the box tree as it is, so this is the same before and
\* after the call
LandsOn(position) ==
    IF IsSome(page.layout_view)
    THEN find_node_by_position(Unwrap(page.layout_view), position)
    ELSE None

LandsOnInput(position) ==
    /\ IsSome(LandsOn(position))
    /\ IsInput(NodeAt(heap, Unwrap(page.layout_view).dom, Unwrap(LandsOn(position))))

\* the parent box of the node a click lands on is an anchor with an href
ParentAnchorHref(position) ==
    LET view == Unwrap(page.layout_view)
        parent == view.objects[Unwrap(LandsOn(position))].parent
    IN  IF parent # 0 /\ NodeAt(heap, view.dom, parent).kind = "Element"
                      /\ NodeAt(heap, view.dom, parent).tag = "a"
        THEN get_attribute(NodeAt(heap, view.dom, parent), "href")
        ELSE None

\* every step taken while a call runs advances the call
RunningCallAdvances == [][pc = "loop" => Advance]_vars

\* C1: receive_response on a response whose script reports a mutation on
\* exactly N consecutive runs and then none returns, for every N up to
\* MaxMutations, and when it returns it has run the script exactly N+1
\* times and parsed HTML exactly N+1 times.
C1_ReceiveResponseTerminates ==
    /\ [](Returned("receive_response") =>
            /\ ~Unwrap(last.body).script.loops
            /\ calls.script = Unwrap(last.body).script.left + 1
            /\ calls.parse = Unwrap(last.body).script.left + 1)
    /\ \A n \in 0..MaxMutations :
          (pc = "loop" /\ Unwrap(last.body).script = [left |-> n, loops |-> FALSE])
              ~> Returned("receive_response")

\* receive_response has returned from a response whose script mutated the
\* DOM on MaxMutations runs
C1_Witness ==
    /\ Returned("receive_response")
    /\ Unwrap(last.body).script = [left |-> MaxMutations, loops |-> FALSE]
    /\ calls.parse = MaxMutations + 1
    /\ calls.script = MaxMutations + 1

\* C2: while receive_response is in its loop no box tree has been built and
\* nothing painted; when it has returned the box tree has been built once
\* and painted once, the modified flag is false, and the display list is
\* the paint of the box tree of the DOM the frame now holds.
C2_LayoutAfterStableOnce ==
    last.op = "receive_response" =>
        /\ pc = "loop" => (calls.layout = 0 /\ calls.paint = 0)
        /\ pc = "idle" =>
              LET id == Unwrap(page.frame)
                  dom == Unwrap(heap[id])
                  view == LayoutViewNew(id, dom, Unwrap(page.style))
              IN  /\ calls.layout = 1 /\ calls.paint = 1
                  /\ ~page.modified
                  /\ dom.script.left = 0
                  /\ page.layout_view = Some(view)
                  /\ page.display_items = paint(view, dom)

\* receive_response has returned from a response whose script mutated the
\* DOM, with a display list on the page
C2_Witness ==
    /\ Returned("receive_response")
    /\ Unwrap(last.body).script.left > 0
    /\ calls.layout = 1 /\ calls.paint = 1
    /\ page.display_items # <<>>

\* C3: a click that lands on an input element has made that input the
\* focused input and has returned none.
C3_ClickOnInputFocuses ==
    (Returned("clicked") /\ LandsOnInput(Unwrap(last.position))) =>
        /\ page.focused_input = Some([dom |-> Unwrap(page.layout_view).dom,
                                      node |-> Unwrap(LandsOn(Unwrap(last.position)))])
        /\ last.target = None

\* a click has landed on an input whose parent is an anchor with an href
C3_Witness ==
    /\ Returned("clicked")
    /\ LandsOnInput(Unwrap(last.position))
    /\ IsSome(ParentAnchorHref(Unwrap(last.position)))
    /\ IsSome(page.focused_input)

\* C4: at most one input is focused, and after a click that does not land on
\* an input element (on another box, or inside no box) no input is focused.
C4_ClickElsewhereClearsFocus ==
    /\ Cardinality({f \in {page.focused_input} : IsSome(f)}) <= 1
    /\ (Returned("clicked") /\ ~LandsOnInput(Unwrap(last.position))) => page.focused_input = None

\* C5: a click returns a target exactly when the node it lands on is not an
\* input and its parent box is an anchor with an href, and the target is
\* that href; otherwise it returns none.
C5_ClickTarget ==
    Returned("clicked") =>
        IF IsSome(LandsOn(Unwrap(last.position))) /\ ~LandsOnInput(Unwrap(last.position))
           /\ IsSome(ParentAnchorHref(Unwrap(last.position)))
        THEN last.target = ParentAnchorHref(Unwrap(last.position))
        ELSE last.target = None

\* a click on the text of a link has returned its href
C5_Witness == Returned("clicked") /\ last.position = Some(<<0, 0>>) /\ last.target = Some("/x")

\* C6: a click on a page without a box tree returns none and leaves the
\* page and every DOM as they were.
C6_ClickWithoutBoxTree ==
    [][(last'.op = "clicked" /\ page.layout_view = None) =>
          (last'.target = None /\ page' = page /\ heap' = heap)]_vars

\* a click has been made on a page that has no box tree
C6_Witness == Returned("clicked") /\ page.layout_view = None /\ last.target = None

\* C7: a key while no input is focused returns false and leaves the page
\* and every DOM, the values of its inputs included, as they were.
C7_KeyWithoutFocus ==
    [][(last'.op = "handle_input" /\ page.focused_input = None) =>
          (last'.handled = FALSE /\ page' = page /\ heap' = heap)]_vars

\* a key has been sent to a loaded page on which no input is focused
C7_Witness ==
    /\ Returned("handle_input")
    /\ page.focused_input = None
    /\ IsSome(page.layout_view)
    /\ last.handled = FALSE

\* C8: a key while an input is focused changes nothing but the value of that
\* input: backspace and delete take the last character off a value that is
\* not empty, a printable ASCII character or a space is put at its end (an
\* absent value counting as empty), any other key leaves the value.
C8_KeyEditsFocusedValue ==
    [][(last'.op = "handle_input" /\ IsSome(page.focused_input)) =>
          LET f == Unwrap(page.focused_input)
              key == Unwrap(last'.key)
              old == FocusedValue(heap, f)
              new == FocusedValue(heap', f)
              text == IF old = None THEN <<>> ELSE Unwrap(old)
          IN  /\ page' = page
              /\ \A i \in DomIds \ {f.dom} : heap'[i] = heap[i]
              /\ heap'[f.dom] = Some([Unwrap(heap[f.dom]) EXCEPT !.value[f.node] = new])
              /\ (key \in {8, 127} /\ text # <<>>) =>
                    new = Some([i \in 1..(Len(text) - 1) |-> text[i]])
              /\ key \in (32..126) => new = Some(text \o <<key>>)
              /\ key \notin ({8, 127} \cup (32..126)) => new = old]_vars

\* delete has taken the last character off a value of two characters
C8_Witness ==
    /\ Returned("handle_input")
    /\ last.key = Some(KEY_DELETE)
    /\ IsSome(page.focused_input)
    /\ FocusedValue(heap, Unwrap(page.focused_input)) = Some(<<97>>)

\* C9 as stated: a key returns true exactly when it put a character on the
\* value of the focused input or took one off.
C9_TrueIffEdited ==
    [][last'.op = "handle_input" =>
          (last'.handled = TRUE <=>
              /\ IsSome(page.focused_input)
              /\ FocusedValue(heap', Unwrap(page.focused_input))
                    # FocusedValue(heap, Unwrap(page.focused_input)))]_vars

\* C9 amended: a key returns true exactly when an input is focused, whether
\* or not the key changed its value.
C9_TrueIffFocused ==
    [][last'.op = "handle_input" => (last'.handled = TRUE <=> IsSome(page.focused_input))]_vars

\* a key that is ignored (ESC) has returned true on a focused input
C9_Witness ==
    /\ Returned("handle_input")
    /\ last.key = Some(27)
    /\ IsSome(page.focused_input)
    /\ last.handled = TRUE

\* C10: backspace or delete on a focused input whose value is empty or
\* absent leaves the value as it was (empty stays empty, absent stays
\* absent) and returns true.
C10_BackspaceOnEmpty ==
    [][(/\ last'.op = "handle_input"
        /\ Unwrap(last'.key) \in {KEY_BACKSPACE, KEY_DELETE}
        /\ IsSome(page.focused_input)
        /\ FocusedValue(heap, Unwrap(page.focused_input)) \in {None, Some(<<>>)}) =>
          /\ FocusedValue(heap', Unwrap(page.focused_input))
                = FocusedValue(heap, Unwrap(page.focused_input))
          /\ last'.handled = TRUE]_vars

\* backspace has been sent to a focused input that has no value
C10_Witness ==
    /\ Returned("handle_input")
    /\ last.key = Some(KEY_BACKSPACE)
    /\ last.handled = TRUE
    /\ IsSome(page.focused_input)
    /\ FocusedValue(heap, Unwrap(page.focused_input)) = None

\* the Input items of a display list
InputItems(items) == SelectSeq(items, LAMBDA i : i.item = "Input")

\* C11: handle_input builds no box tree and paints nothing: for every key
\* the box tree and the display list are after the call what they were
\* before it, and no layout and no paint has run.
C11_KeyLeavesDisplay ==
    [][last'.op = "handle_input" =>
          /\ page'.layout_view = page.layout_view
          /\ page'.display_items = page.display_items
          /\ calls'.layout = 0 /\ calls'.paint = 0]_vars

\* a key has put a character on the value of the focused input, and the
\* display list still shows the input without it
C11_Witness ==
    /\ Returned("handle_input")
    /\ last.key = Some(97)
    /\ IsSome(page.focused_input)
    /\ IsSome(page.frame)
    /\ Unwrap(page.focused_input).dom = Unwrap(page.frame)
    /\ FocusedValue(heap, Unwrap(page.focused_input)) = Some(<<97>>)
    /\ Len(InputItems(page.display_items)) = 1
    /\ InputItems(page.display_items)[1].value = None

\* the keys that edit a value, as distinct from those handle_input ignores
EditKeys == {key \in Keys : key \in {KEY_BACKSPACE, KEY_DELETE, KEY_SPACE} \/ is_ascii_graphic(key)}

\* refresh_display is called right after handle_input has handled an edit key
RefreshAfterEdit ==
    /\ last.op = "handle_input" /\ last.handled = TRUE
    /\ Unwrap(last.key) \in EditKeys
    /\ last'.op = "refresh_display"

\* the display list shows an input with the value of the focused input
ShowsFocusedValue(p, h) ==
    \E i \in 1..Len(p.display_items) :
        /\ p.display_items[i].item = "Input"
        /\ p.display_items[i].value = FocusedValue(h, Unwrap(p.focused_input))

\* C12 as stated: when refresh_display is called after handle_input has
\* edited the focused input, the display list has an Input item with the
\* edited value, also when the input was focused before a later
\* receive_response replaced the DOM.
C12_EditShownAfterRefresh ==
    [][RefreshAfterEdit => ShowsFocusedValue(page', heap')]_vars

\* what the code does keep: the edit is shown when the focused input is a
\* node of the DOM the frame holds
EditShownWhenFocusInFrame ==
    [][(RefreshAfterEdit /\ Unwrap(page.focused_input).dom = Unwrap(page.frame))
          => ShowsFocusedValue(page', heap')]_vars

\* refresh_display has returned after an edit of an input of the DOM the
\* frame holds, and the display list shows the edited value
EditShownWitness ==
    /\ Returned("refresh_display")
    /\ IsSome(page.focused_input)
    /\ Unwrap(page.focused_input).dom = Unwrap(page.frame)
    /\ FocusedValue(heap, Unwrap(page.focused_input)) = Some(<<97>>)
    /\ ShowsFocusedValue(page, heap)

\* C13: refresh_display is idempotent: once it has returned, calling it
\* again with nothing changed in between yields the same display list
\* (same length, same items in the same order) and the same box tree; on a
\* page that has received nothing both calls yield the empty list.
C13_RefreshIdempotent ==
    Returned("refresh_display") =>
        /\ refresh_display(World).page.display_items = page.display_items
        /\ refresh_display(World).page.layout_view = page.layout_view
        /\ page.frame = None => page.display_items = <<>>

\* refresh_display has returned with a display list that shows an edited
\* input
C13_Witness ==
    /\ Returned("refresh_display")
    /\ Len(page.display_items) > 1
    /\ Len(InputItems(page.display_items)) = 1
    /\ InputItems(page.display_items)[1].value = Some(<<97>>)

\* C16: whenever receive_response or refresh_display has returned on a page
\* that has a DOM, that call has built the box tree of the DOM once and
\* painted once after it, and the display list is the paint of that box
\* tree: not of an earlier one, and not of part of it.
C16_PaintOfLatestLayout ==
    ((Returned("receive_response") \/ Returned("refresh_display")) /\ IsSome(page.frame)) =>
        LET id == Unwrap(page.frame)
            dom == Unwrap(heap[id])
            view == LayoutViewNew(id, dom, Unwrap(page.style))
        IN  /\ calls.layout = 1 /\ calls.paint = 1
            /\ page.layout_view = Some(view)
            /\ page.display_items = paint(view, dom)

\* refresh_display has returned on a page whose display list before the call
\* was the paint of an earlier box tree: an input has been edited since
C16_Witness ==
    /\ Returned("refresh_display")
    /\ IsSome(page.frame)
    /\ IsSome(page.focused_input)
    /\ Unwrap(page.focused_input).dom = Unwrap(page.frame)
    /\ FocusedValue(heap, Unwrap(page.focused_input)) = Some(<<97, 97>>)
    /\ ShowsFocusedValue(page, heap)

\* C20: refresh_display on a page that has no DOM or no stylesheet (no
\* response has been received) builds no box tree, leaves the display list
\* and the rest of the page as they were, and returns normally.
C20_RefreshOnEmptyPage ==
    [][(last'.op = "refresh_display" /\ (page.frame = None \/ page.style = None)) =>
          /\ page'.layout_view = None
          /\ page'.display_items = page.display_items
          /\ page' = page /\ heap' = heap
          /\ calls'.layout = 0 /\ calls'.paint = 0
          /\ pc' = "idle"]_vars

\* refresh_display has returned on a page that has received no response
C20_Witness ==
    /\ Returned("refresh_display")
    /\ page.frame = None /\ page.style = None
    /\ page.layout_view = None
    /\ page.display_items = <<>>

\* the input elements of a document, in document order
InputNodes(nodes) ==
    SelectSeq([n \in 1..Len(nodes) |-> n], LAMBDA n : IsInput(nodes[n]))

\* the texts directly under an h1 element
H1Texts(nodes) ==
    {n \in 1..Len(nodes) :
        /\ nodes[n].kind = "Text" /\ nodes[n].parent # 0
        /\ nodes[nodes[n].parent].kind = "Element" /\ nodes[nodes[n].parent].tag = "h1"}

\* C17: after receive_response of a page with visible inputs and an h1 with
\* text, the display list has exactly one Input item per input, in document
\* order, each with the type, name and placeholder of its input unchanged,
\* and the Text item of every text of the h1 has font-size XXLarge.  For
\* the form page: one Input item, type "text", name "username", placeholder
\* "enter name".
C17_InputAndHeadingItems ==
    (Returned("receive_response") /\ Unwrap(last.body).script = NoScript) =>
        LET nodes == Unwrap(last.body).nodes
            inputs == InputNodes(nodes)
            items == InputItems(page.display_items)
        IN  /\ Len(items) = Len(inputs)
            /\ \A k \in 1..Len(inputs) :
                  /\ get_attribute(nodes[inputs[k]], "type") = Some(items[k].input_type)
                  /\ get_attribute(nodes[inputs[k]], "name") = items[k].name
                  /\ get_attribute(nodes[inputs[k]], "placeholder") = items[k].placeholder
            /\ \A n \in H1Texts(nodes) :
                  /\ Cardinality({i \in 1..Len(page.display_items) :
                        /\ page.display_items[i].item = "Text"
                        /\ page.display_items[i].text = nodes[n].text}) = 1
                  /\ \A i \in 1..Len(page.display_items) :
                        (/\ page.display_items[i].item = "Text"
                         /\ page.display_items[i].text = nodes[n].text)
                            => page.display_items[i].style.font_size = Some("XXLarge")
            /\ nodes = DocForm =>
                  /\ Len(items) = 1
                  /\ items[1].input_type = "text"
                  /\ items[1].name = Some("username")
                  /\ items[1].placeholder = Some("enter name")

\* receive_response has returned from the form page, and its display list
\* has the input and the heading
C17_Witness ==
    /\ Returned("receive_response")
    /\ Unwrap(last.body).nodes = DocForm
    /\ Len(InputItems(page.display_items)) = 1
    /\ InputItems(page.display_items)[1].name = Some("username")
    /\ \E i \in 1..Len(page.display_items) :
          /\ page.display_items[i].item = "Text"
          /\ page.display_items[i].text = DocForm[4].text
          /\ page.display_items[i].style.font_size = Some("XXLarge")

\* C14: refresh_display runs layout and paint only: it parses no HTML or
\* CSS and runs no script, and it leaves the DOM handle and the DOMs, the
\* stylesheet, the modified flag, the focused input and the list of
\* subresources as they were.
C14_RefreshOnlyLayoutAndPaint ==
    [][last'.op = "refresh_display" =>
          /\ calls'.parse = 0 /\ calls'.script = 0
          /\ page'.frame = page.frame
          /\ heap' = heap
          /\ page'.style = page.style
          /\ page'.modified = page.modified
          /\ page'.focused_input = page.focused_input
          /\ page'.subresources = page.subresources
          /\ IsSome(page.frame) => (calls'.layout = 1 /\ calls'.paint = 1)]_vars

\* refresh_display has returned on a page that holds a DOM with a script, a
\* non-empty stylesheet, a focused input and a subresource
C14_Witness ==
    /\ Returned("refresh_display")
    /\ IsSome(page.frame)
    /\ Unwrap(heap[Unwrap(page.frame)]).css = CssWide
    /\ Unwrap(page.style) # <<>>
    /\ IsSome(page.focused_input)
    /\ page.subresources # <<>>
    /\ calls.layout = 1 /\ calls.paint = 1

\* C15: a navigation whose URL handler fails, on a URL it cannot parse or
\* on the network, returns the error and calls neither clear_display_items
\* nor receive_response, in both user interfaces: the display list, the
\* DOM, the box tree, the focus and the rest of the page are what they
\* were before the attempt.
C15_FailedNavigationKeepsPage ==
    [][(last'.op = "start_navigation" /\ last'.body = None) =>
          /\ last'.error \in {Some("UnexpectedInput"), Some("Network")}
          /\ page'.display_items = page.display_items
          /\ page'.frame = page.frame
          /\ page'.layout_view = page.layout_view
          /\ page'.focused_input = page.focused_input
          /\ page' = page /\ heap' = heap
          /\ calls' = NoCalls]_vars

\* a navigation has failed on the network on a page that shows the form
\* with its input focused
C15_Witness ==
    /\ Returned("start_navigation")
    /\ last.error = Some("Network")
    /\ IsSome(page.frame)
    /\ IsSome(page.focused_input)
    /\ Unwrap(page.focused_input).dom = Unwrap(page.frame)
    /\ Len(InputItems(page.display_items)) = 1

\* the places of the entries for a URL in the list of subresources
EntriesFor(src) == {i \in 1..Len(page.subresources) : page.subresources[i].src = src}

\* C18: subresource(url) always returns a result: the empty one for a URL
\* that was never pushed, and for a pushed URL the resource stored in its
\* first entry, which is empty as long as nothing has populated it.
C18_LookupNeverFails ==
    Returned("subresource") =>
        LET src == Unwrap(last.src)
        IN  /\ IsSome(last.target)
            /\ EntriesFor(src) = {} => last.target = Some("")
            /\ EntriesFor(src) # {} =>
                  LET first == CHOOSE i \in EntriesFor(src) : \A j \in EntriesFor(src) : i <= j
                  IN  last.target = Some(page.subresources[first].resource)

\* a URL that was never pushed has been looked up on a page that holds
\* entries for another one
C18_Witness ==
    /\ Returned("subresource")
    /\ page.subresources # <<>>
    /\ EntriesFor(Unwrap(last.src)) = {}
    /\ last.target = Some("")

\* a URL that was pushed has been looked up
C18_HitWitness ==
    /\ Returned("subresource")
    /\ EntriesFor(Unwrap(last.src)) # {}
    /\ last.target = Some("")

\* C19 as stated: the page holds at most one subresource entry for each
\* URL, however often the URL is pushed.
C19_OneEntryPerUrl ==
    \A i, j \in 1..Len(page.subresources) :
        page.subresources[i].src = page.subresources[j].src => i = j

\* what the code keeps: an entry for every push, in the order of the pushes
PushAppends ==
    [][\A src \in Srcs :
          (last'.op = "push_url_for_subresource" /\ last'.src = Some(src)) =>
              page'.subresources = Append(page.subresources, SubresourceNew(src))]_vars

\* the framebuffer UI has drawn the page with the image twice and the page
\* holds two entries for the image
PushTwiceWitness ==
    /\ Returned("start_navigation")
    /\ last.error = None
    /\ Len(page.subresources) = 2
    /\ page.subresources[1].src = "a.bmp"
    /\ page.subresources[2].src = "a.bmp"

\* a style all of whose fields are present
AllPresent(self) == \A f \in StyleFields : ~Accessor(self, f).aborted

\* C21: after defaulting every field of the ComputedStyle is present,
\* whatever the node and the parent style, and no accessor aborts; on a
\* freshly created ComputedStyle every accessor aborts; an abort happens
\* only in an accessor whose field is unset or in a defaulting that consults
\* the parent; and defaulting against a parent style that has not been
\* defaulted itself aborts instead of completing.
C21_PresentAfterDefaulting ==
    /\ [](cs.status = "defaulted" => AllPresent(cs.style))
    /\ []((cs.status = "new" /\ cs.style = ComputedStyleNew) =>
              \A f \in StyleFields : Accessor(cs.style, f).aborted)
    /\ [][(cs.status = "defaulted" /\ cs'.status = "aborted") => FALSE]_vars
    /\ [][(cs.status = "new" /\ cs'.status = "aborted") =>
              IF cs'.where = "defaulting"
              THEN /\ IsSome(cs.parent)
                   /\ \E i \in 1..Len(InheritedFields) :
                         /\ cs.style[InheritedFields[i]] = None
                         /\ Unwrap(cs.parent)[InheritedFields[i]] = None
              ELSE cs'.where \in StyleFields /\ cs.style[cs'.where] = None]_vars
    /\ [][(cs.status = "new" /\ cs'.status = "defaulted") =>
              (IsSome(cs.parent) => AllPresent(Unwrap(cs.parent)))]_vars

\* the style of a text node has been defaulted against the style of its
\* parent
C21_Witness ==
    /\ cs.status = "defaulted"
    /\ cs.node.kind = "Text"
    /\ IsSome(cs.parent)
    /\ cs.declared = ComputedStyleNew
    /\ AllPresent(cs.style)

\* defaulting has aborted in the accessor of a parent style
DefaultingAbortWitness == cs.status = "aborted" /\ cs.where = "defaulting"

\* an accessor has aborted
AccessorAbortWitness == cs.status = "aborted" /\ cs.where = "white_space"

\* the user-agent default of an inherited property, and the default of the
\* node itself
UaDefault ==
    [background_color |-> "white", color |-> "black", font_size |-> "Medium",
     text_decoration |-> "None"]

NodeDefault(node) ==
    [background_color |-> "white", color |-> "black",
     font_size |-> FontSizeDefault(node),
     text_decoration |-> TextDecorationDefault(node)]

\* C22: a node on which color, background-color, font-size or
\* text-decoration is unset resolves to the resolved value of the parent
\* if and only if there is a parent and that value is not the user-agent
\* default (black, white, Medium, None), and to the node's own default
\* otherwise; so a value that is not the default is handed down a chain of
\* nodes with the property unset.
C22_InheritanceRule ==
    cs.status = "defaulted" =>
        \A f \in DOMAIN UaDefault :
            cs.declared[f] = None =>
                IF IsSome(cs.parent) /\ Unwrap(cs.parent)[f] # Some(UaDefault[f])
                THEN cs.style[f] = Unwrap(cs.parent)[f]
                ELSE cs.style[f] = Some(NodeDefault(cs.node)[f])

\* color is red on a node and on its parent, and neither has it declared:
\* it comes from further up
C22_Witness ==
    /\ cs.status = "defaulted"
    /\ cs.declared.color = None
    /\ "color" \in cs.parent_unset
    /\ IsSome(cs.parent)
    /\ Unwrap(cs.parent).color = Some("red")
    /\ cs.style.color = Some("red")

\* an h1 under a parent whose font-size is Medium takes its own default
OwnDefaultWitness ==
    /\ cs.status = "defaulted"
    /\ cs.node = ElementNode("h1", 1, {})
    /\ IsSome(cs.parent)
    /\ Unwrap(cs.parent).font_size = Some("Medium")
    /\ cs.style.font_size = Some("XXLarge")

\* C23 as stated: an element with no font-size declared resolves to XXLarge
\* if it is an h1, XLarge if it is an h2 and Medium otherwise, whatever its
\* parent is.
C23_FontSizeByElementKind ==
    (cs.status = "defaulted" /\ cs.node.kind = "Element" /\ cs.declared.font_size = None) =>
        cs.style.font_size =
            Some(CASE cs.node.tag = "h1" -> "XXLarge"
                   [] cs.node.tag = "h2" -> "XLarge"
                   [] OTHER -> "Medium")

\* C23 amended: that holds when the element has no parent or the resolved
\* font-size of the parent is Medium; under a parent with another
\* font-size the element takes the font-size of the parent.
C23_FontSizeByElementKindOrParent ==
    (cs.status = "defaulted" /\ cs.node.kind = "Element" /\ cs.declared.font_size = None) =>
        IF cs.parent = None \/ Unwrap(cs.parent).font_size = Some("Medium")
        THEN cs.style.font_size =
                Some(CASE cs.node.tag = "h1" -> "XXLarge"
                       [] cs.node.tag = "h2" -> "XLarge"
                       [] OTHER -> "Medium")
        ELSE cs.style.font_size = Unwrap(cs.parent).font_size

\* an h2 under a parent with font-size Medium has resolved to XLarge
C23_Witness ==
    /\ cs.status = "defaulted"
    /\ cs.node = ElementNode("h2", 1, {})
    /\ cs.declared.font_size = None
    /\ IsSome(cs.parent)
    /\ Unwrap(cs.parent).font_size = Some("Medium")
    /\ cs.style.font_size = Some("XLarge")

\* an h1 under an h2, or under any parent with font-size XLarge, has
\* resolved to XLarge
HeadingInheritsWitness ==
    /\ cs.status = "defaulted"
    /\ cs.node = ElementNode("h1", 1, {})
    /\ cs.declared.font_size = None
    /\ cs.style.font_size = Some("XLarge")

\* the style belongs to a script or a style element
OnScriptOrStyle == cs.node.kind = "Element" /\ cs.node.tag \in {"script", "style"}

\* C24 as stated: the resolved display of a script or style element is
\* None, whatever declarations matched it and whatever the parent style.
C24_ScriptDisplayNone ==
    (cs.status = "defaulted" /\ OnScriptOrStyle) => cs.style.display = Some("DisplayNone")

\* C24 amended: the resolved display of a script or style element on which
\* no declaration sets display is None, whatever the parent style; a
\* display that a declaration has set is kept.
C24_ScriptDisplayNoneUnlessDeclared ==
    (cs.status = "defaulted" /\ OnScriptOrStyle) =>
        IF cs.declared.display = None
        THEN cs.style.display = Some("DisplayNone")
        ELSE cs.style.display = cs.declared.display

\* a script element with a declared color under a parent that is displayed
\* as a block has resolved to display None
C24_Witness ==
    /\ cs.status = "defaulted"
    /\ cs.node = ElementNode("script", 1, {})
    /\ cs.declared.display = None
    /\ cs.declared.color = Some("red")
    /\ IsSome(cs.parent)
    /\ Unwrap(cs.parent).display = Some("Block")
    /\ cs.style.display = Some("DisplayNone")

\* a style element on which display: block was declared is displayed as a
\* block
ScriptShownWitness ==
    /\ cs.status = "defaulted"
    /\ cs.node = ElementNode("style", 1, {})
    /\ cs.style.display = Some("Block")

\* C25: an a element resolves to text-decoration Underline whatever the
\* style of its parent, and so does every node under a parent that has
\* resolved to Underline: text-decoration has no setter, so it is unset on
\* every node and Underline goes down from an anchor to all its
\* descendants, its text children first.
C25_AnchorUnderline ==
    (cs.status = "defaulted" /\ cs.declared.text_decoration = None) =>
        /\ (cs.node.kind = "Element" /\ cs.node.tag = "a") =>
              cs.style.text_decoration = Some("Underline")
        /\ (IsSome(cs.parent) /\ Unwrap(cs.parent).text_decoration = Some("Underline")) =>
              cs.style.text_decoration = Some("Underline")
        /\ cs.style.text_decoration \in {Some("Underline"), Some("None")}

\* a text under an underlined parent has resolved to Underline
C25_Witness ==
    /\ cs.status = "defaulted"
    /\ cs.node.kind = "Text"
    /\ IsSome(cs.parent)
    /\ Unwrap(cs.parent).text_decoration = Some("Underline")
    /\ cs.style.text_decoration = Some("Underline")

\* an a element under a parent that is not underlined has resolved to
\* Underline
AnchorOwnDefaultWitness ==
    /\ cs.status = "defaulted"
    /\ cs.node = ElementNode("a", 1, {})
    /\ IsSome(cs.parent)
    /\ Unwrap(cs.parent).text_decoration = Some("None")
    /\ cs.style.text_decoration = Some("Underline")

\* the properties that are not inherited
NonInheritedFields == {"display", "width", "height", "margin", "padding", "white_space"}

NonInherited(self) == [f \in NonInheritedFields |-> self[f]]

\* parent styles to resolve a node against: none, and resolved styles that
\* differ in every property
OtherParents ==
    {None} \cup
    {Some(defaulting(declared, node, None)) :
        declared \in {ComputedStyleNew,
                      set_property(ComputedStyleNew, "display", "DisplayNone"),
                      set_property(set_property(ComputedStyleNew, "width", 3),
                                   "color", "red"),
                      set_property(set_property(ComputedStyleNew, "margin",
                                                BoxInfoNew(1, 1, 1, 1)),
                                   "font_size", "XLarge")},
        node \in {DocumentNode, ElementNode("a", 1, {}), ElementNode("script", 1, {})}}

\* C26: display, width, height, margin, padding and white-space do not
\* depend on the parent: the node with the same declarations resolved
\* against any other parent style, or against none, gets the same six
\* values; and width, height, margin and padding that no declaration set
\* resolve to zero.
C26_NonInheritedIgnoreParent ==
    cs.status = "defaulted" =>
        /\ \A other \in OtherParents :
              NonInherited(defaulting(cs.declared, cs.node, other)) = NonInherited(cs.style)
        /\ cs.declared.width = None => cs.style.width = Some(0)
        /\ cs.declared.height = None => cs.style.height = Some(0)
        /\ cs.declared.margin = None => cs.style.margin = Some(BoxInfoNew(0, 0, 0, 0))
        /\ cs.declared.padding = None => cs.style.padding = Some(BoxInfoNew(0, 0, 0, 0))

\* a text has been resolved under a parent that is not displayed and has a
\* width, and is displayed inline with width zero
C26_Witness ==
    /\ cs.status = "defaulted"
    /\ cs.node.kind = "Text"
    /\ IsSome(cs.parent)
    /\ Unwrap(cs.parent).display = Some("DisplayNone")
    /\ cs.style.display = Some("Inline")
    /\ cs.style.width = Some(0)

\* one explicit value for each property that has a setter
ExplicitValues ==
    [background_color |-> "red", color |-> "red", display |-> "Block",
     font_size |-> "XLarge", height |-> 3, margin |-> BoxInfoNew(1, 1, 1, 1),
     padding |-> BoxInfoNew(1, 1, 1, 1), width |-> 3]

\* C27: defaulting changes no property that was set: every property the
\* declarations set has the same value after defaulting, whatever the node
\* and the parent style; and one more property set before defaulting, for
\* each property with a setter, keeps its value too.
C27_ExplicitValuesKept ==
    /\ cs.status = "defaulted" =>
          \A field \in StyleFields :
              IsSome(cs.declared[field]) => cs.style[field] = cs.declared[field]
    /\ cs.status = "defaulted" =>
          \A field \in DOMAIN ExplicitValues :
              LET set == set_property(cs.declared, field, ExplicitValues[field])
              IN  defaulting(set, cs.node, cs.parent)[field] = Some(ExplicitValues[field])

\* an h1 whose declarations set font-size XLarge has been resolved under a
\* parent with font-size XXLarge and has font-size XLarge
C27_Witness ==
    /\ cs.status = "defaulted"
    /\ cs.node.kind = "Element"
    /\ cs.node.tag = "h1"
    /\ cs.declared.font_size = Some("XLarge")
    /\ IsSome(cs.parent)
    /\ Unwrap(cs.parent).font_size = Some("XXLarge")
    /\ cs.style.font_size = Some("XLarge")

\* a script whose declarations set display Block has been resolved and is
\* displayed as a block
ExplicitDisplayWitness ==
    /\ cs.status = "defaulted"
    /\ cs.node.kind = "Element"
    /\ cs.node.tag = "script"
    /\ cs.declared.display = Some("Block")
    /\ cs.style.display = Some("Block")

\* C28: DisplayType::from_str gives Block for "block", Inline for "inline"
\* and DisplayNone for "none", and for every other string the error value
\* UnexpectedInput; it aborts on none of them, and the style is left to be
\* resolved.
C28_DisplayFromStr ==
    cs.parsed # NotParsed =>
        /\ cs.status = "new"
        /\ cs.parsed.input \in DisplayKeywords
        /\ cs.parsed.input = "block" => cs.parsed.ok /\ cs.parsed.value = "Block"
        /\ cs.parsed.input = "inline" => cs.parsed.ok /\ cs.parsed.value = "Inline"
        /\ cs.parsed.input = "none" => cs.parsed.ok /\ cs.parsed.value = "DisplayNone"
        /\ cs.parsed.input \notin {"block", "inline", "none"} =>
              ~cs.parsed.ok /\ cs.parsed.value = "UnexpectedInput"
        /\ cs.parsed.ok => cs.style.display = Some(cs.parsed.value)

\* the keyword flex has been given and the error value came back
C28_Witness ==
    /\ cs.parsed.input = "flex"
    /\ ~cs.parsed.ok
    /\ cs.parsed.value = "UnexpectedInput"
    /\ cs.status = "new"

\* the keyword Block, which differs from block in case only, has been
\* given and the error value came back
CaseSensitiveWitness ==
    /\ cs.parsed.input = "Block"
    /\ ~cs.parsed.ok
    /\ cs.status = "new"

\* the keyword none has been given and DisplayNone came back
ParsedNoneWitness ==
    /\ cs.parsed.input = "none"
    /\ cs.parsed.ok
    /\ cs.style.display = Some("DisplayNone")

\* C29: a navigation fails by kind, and start_navigation hands the error
\* to its caller: when the URL does not parse the error is UnexpectedInput
\* and no request has been sent; when the first request or the request to
\* the Location fails the error is Network; there is no other error, and
\* none when nothing failed.
C29_FailuresByKind ==
    (app.fetch.navigations = 1 /\ app.status # "aborted") =>
        /\ app.fetch.failure = "parse" <=> app.fetch.error = Some("UnexpectedInput")
        /\ app.fetch.failure \in {"first", "redirect"} <=> app.fetch.error = Some("Network")
        /\ app.fetch.failure = "none" <=> app.fetch.error = None
        /\ app.fetch.failure = "parse" => app.fetch.requests = 0
        /\ app.fetch.failure = "first" => app.fetch.requests = 1
        /\ app.fetch.failure = "redirect" => app.fetch.requests = 2
        /\ app.fetch.error \in {None, Some("UnexpectedInput"), Some("Network")}
        /\ last.op = "start_navigation" /\ last.error = app.fetch.error

\* the request to the Location of a redirect has failed and the navigation
\* has returned the error Network after two requests
C29_Witness ==
    /\ app.fetch.navigations = 1
    /\ app.fetch.failure = "redirect"
    /\ app.fetch.error = Some("Network")
    /\ app.fetch.requests = 2
    /\ app.status = "running"

\* the URL has not parsed and the navigation has returned UnexpectedInput
\* without a request
ParseFailureWitness ==
    /\ app.fetch.navigations = 1
    /\ app.fetch.failure = "parse"
    /\ app.fetch.error = Some("UnexpectedInput")
    /\ app.fetch.requests = 0

\* the first request has failed and the navigation has returned Network
FirstRequestFailureWitness ==
    /\ app.fetch.navigations = 1
    /\ app.fetch.failure = "first"
    /\ app.fetch.error = Some("Network")
    /\ app.fetch.requests = 1

\* expect() on a port that is no number has stopped the program during a
\* navigation: no error was returned
PortAbortWitness ==
    /\ app.status = "aborted"
    /\ app.fetch.navigations = 1
    /\ app.fetch.error = None

\* a graphic character has been typed while an input of the page is focused
TypedOnFocusedInput ==
    /\ app.event.kind = "key"
    /\ app.event.key.code = "Char"
    /\ is_ascii_graphic(app.event.key.c)
    /\ IsSome(page.focused_input)

Called(operation) == \E i \in DOMAIN app.page_calls : app.page_calls[i] = operation

\* C30: a character key typed while an input of the page is focused is
\* handed to handle_input of the page.
C30_KeysReachFocusedInput == TypedOnFocusedInput => Called("handle_input")

\* no handler of either user interface calls handle_input or
\* refresh_display, and a key that starts no navigation leaves the page as
\* it is
KeysNeverReachPage ==
    /\ [](~Called("handle_input") /\ ~Called("refresh_display"))
    /\ [][(app'.event.kind = "key" /\ app'.fetch.navigations = 0) => page' = page]_vars

\* a button has been pressed with the pointer at a position of the screen
Pressed == app.event.kind = "mouse" /\ app.event.button

\* the position of the screen is inside the window and below its title bar
\* and toolbar
InContentArea(position) ==
    /\ position[1] - WINDOW_INIT_X_POS \in 0..WINDOW_WIDTH
    /\ position[2] - WINDOW_INIT_Y_POS \in (TITLE_BAR_HEIGHT + TOOLBAR_HEIGHT)..WINDOW_HEIGHT

\* the position relative to the corner of the content area
ContentRelative(position) ==
    <<position[1] - WINDOW_INIT_X_POS,
      position[2] - WINDOW_INIT_Y_POS - TITLE_BAR_HEIGHT - TOOLBAR_HEIGHT>>

\* what the claim asks of the handling of a press: in the content area,
\* clicked is called with the content-relative position and a navigation to
\* the destination it returns is started if and only if it returns one;
\* elsewhere clicked is not called
ClickReachesPage ==
    IF InContentArea(app.event.position)
    THEN /\ Called("clicked")
         /\ IsSome(app.click)
         /\ IF IsSome(app.click)
            THEN /\ Unwrap(app.click).position = ContentRelative(app.event.position)
                 /\ app.fetch.navigations = 1 <=> IsSome(Unwrap(app.click).target)
                 /\ app.fetch.navigations = 1 =>
                       app.fetch.destination = Chars(Unwrap(Unwrap(app.click).target))
            ELSE FALSE
    ELSE ~Called("clicked") /\ app.click = None /\ app.fetch.navigations = 0

\* C31: in either user interface a press of a button in the content area
\* calls clicked with the content-relative position and starts a navigation
\* to the returned destination exactly when there is one; a press outside
\* the window, in the title bar or in the toolbar does not reach clicked.
C31_ClickReachesPage == Pressed => ClickReachesPage

\* the framebuffer UI does what the claim asks
WasabiClickReachesPage == (Pressed /\ app.ui = "wasabi") => ClickReachesPage

\* the terminal UI hands no pointer event to the page: after one, no
\* operation of the page has been called and no navigation started
TuiIgnoresPointer ==
    (app.event.kind = "mouse" /\ app.ui = "cui") =>
        app.page_calls = <<>> /\ app.click = None /\ app.fetch.navigations = 0

\* the framebuffer UI has handled a press on a link of the page and has
\* started the navigation to its destination
ClickNavigatesWitness ==
    /\ Pressed
    /\ app.ui = "wasabi"
    /\ IsSome(app.click)
    /\ app.click = Some(ClickOf(<<0, 0>>, Some("/x")))
    /\ app.fetch.navigations = 1
    /\ app.fetch.destination = <<47, 120>>

\* the framebuffer UI has handled a press in the content area where clicked
\* returns no destination
ClickStaysWitness ==
    /\ Pressed
    /\ app.ui = "wasabi"
    /\ IsSome(page.frame)
    /\ app.click = Some(ClickOf(<<0, 2>>, None))
    /\ app.fetch.navigations = 0

\* the terminal UI has been given a press in its page area, with a page
\* loaded
TuiPressedWitness ==
    /\ Pressed
    /\ app.ui = "cui"
    /\ IsSome(page.frame)
    /\ InContentArea(app.event.position)

\* a navigation has been started and its fetch has succeeded
NavigatedTo(body) ==
    /\ app.fetch.navigations = 1
    /\ app.status # "aborted"
    /\ app.fetch.body = Some(body)

\* the display list of a page that has received this response and no other
ItemsOf(body) ==
    receive_response([page |-> PageNew, heap |-> [i \in DomIds |-> None], calls |-> NoCalls],
                     body).page.display_items

\* the operations the handler has called on the page after clicked, if it
\* has called that
AfterClick(page_calls) ==
    IF page_calls # <<>> /\ Head(page_calls) = "clicked" THEN Tail(page_calls) ELSE page_calls

\* C32: a navigation whose fetch succeeds calls clear_display_items and
\* then receive_response on the page, each once: the response is parsed,
\* laid out and painted once, and the display list afterwards is the list
\* of the new page alone, with no item of the page shown before; and at any
\* time the display list is empty or the list of one page.
C32_ClearThenReceiveOnce ==
    /\ \A body \in {FormBody, LinksBody} :
          NavigatedTo(body) =>
              /\ AfterClick(app.page_calls) = <<"clear_display_items", "receive_response">>
              /\ app.fetch.error = None
              /\ calls.parse = 1 /\ calls.layout = 1 /\ calls.paint = 1
              /\ page.display_items = ItemsOf(body)
              /\ page.display_items # <<>>
    /\ page.display_items \in {<<>>, ItemsOf(FormBody), ItemsOf(LinksBody)}
    /\ (app.fetch.navigations = 1 /\ app.fetch.body = None) =>
          ~Called("clear_display_items") /\ ~Called("receive_response")

\* the page of links has been received while an input of the page shown
\* before, the form, still has the focus: the display list is that of the
\* links alone
C32_Witness ==
    /\ NavigatedTo(LinksBody)
    /\ IsSome(page.focused_input)
    /\ IsSome(page.frame)
    /\ Unwrap(page.focused_input).dom # Unwrap(page.frame)
    /\ page.display_items = ItemsOf(LinksBody)
    /\ ItemsOf(LinksBody) # ItemsOf(FormBody)

\* the terminal UI has received the form after the links were shown and a
\* link was focused
TuiSecondPageWitness ==
    /\ app.ui = "cui"
    /\ NavigatedTo(FormBody)
    /\ IsSome(app.focus)
    /\ page.display_items = ItemsOf(FormBody)

\* C33: the stages of the page: the DOM is present exactly when the
\* stylesheet is, the box tree only when both are, a focused input only when
\* the box tree is; and no step removes a DOM, a stylesheet or a box tree
\* that is present.
C33_Staging ==
    /\ [](IsSome(page.frame) <=> IsSome(page.style))
    /\ [](IsSome(page.layout_view) => (IsSome(page.frame) /\ IsSome(page.style)))
    /\ [](IsSome(page.focused_input) => IsSome(page.layout_view))
    /\ [][/\ IsSome(page.frame) => IsSome(page'.frame)
          /\ IsSome(page.style) => IsSome(page'.style)
          /\ IsSome(page.layout_view) => IsSome(page'.layout_view)]_vars

\* a page with DOM, stylesheet, box tree and focused input whose display
\* list has just been emptied by clear_display_items
C33_Witness ==
    /\ IsSome(page.frame)
    /\ IsSome(page.style)
    /\ IsSome(page.layout_view)
    /\ IsSome(page.focused_input)
    /\ last.op = "clear_display_items"
    /\ page.display_items = <<>>
    /\ pc = "idle"

\* a first response is being received: the DOM and the stylesheet are
\* present and the box tree is not yet
LoadedNotLaidOutWitness ==
    /\ pc = "loop"
    /\ IsSome(page.frame)
    /\ IsSome(page.style)
    /\ page.layout_view = None

\* the focused input is a node of the DOM the box tree was built from
FocusInCurrentDom(p) ==
    IsSome(p.focused_input) =>
        /\ IsSome(p.layout_view)
        /\ IsSome(p.frame)
        /\ Unwrap(p.focused_input).dom = Unwrap(p.layout_view).dom
        /\ Unwrap(p.focused_input).dom = Unwrap(p.frame)

\* C34 as stated: between calls of clicked, handle_input, refresh_display
\* and receive_response, a focused input is a node of the DOM the current box
\* tree was built from; a receive_response that replaces the DOM leaves no
\* focus on a node of the replaced DOM.
C34_FocusInCurrentDom ==
    pc = "idle" => FocusInCurrentDom(page)

\* what the code does keep: a click that hits a node of the box tree leaves
\* the focus, if any, on a node of the current DOM
FocusFreshAfterClick ==
    (/\ Returned("clicked")
     /\ IsSome(page.layout_view)
     /\ IsSome(find_node_by_position(Unwrap(page.layout_view), Unwrap(last.position))))
        => FocusInCurrentDom(page)

\* a click has just focused an input of the current DOM
FocusFreshWitness ==
    /\ Returned("clicked")
    /\ IsSome(page.focused_input)
    /\ FocusInCurrentDom(page)

\* receive_response has returned with the focus still on an input of the
\* DOM it replaced
StaleFocusWitness ==
    /\ Returned("receive_response")
    /\ IsSome(page.focused_input)
    /\ Unwrap(page.focused_input).dom # Unwrap(page.frame)

\* the handler of the last event started a navigation and the URL handler
\* returned an error
NavigationFailed == app.fetch.navigations = 1 /\ IsSome(app.fetch.error)

\* C35 as stated: a failed navigation never ends the event loop: after the
\* URL handler has returned an error the UI keeps accepting events, in both
\* back-ends, from the URL bar, from a focused link and from a click.
C35_FailedNavigationKeepsLoop ==
    NavigationFailed => app.status = "running"

\* what the code does keep: the only failed navigation that ends the loop is
\* the terminal UI's Enter in Editing mode; the framebuffer UI and the
\* terminal UI's Enter on a focused link go on
FailureEndsLoopFromTuiUrlBarOnly ==
    (NavigationFailed /\ app.status # "running")
        => /\ app.ui = "cui"
           /\ app.input_mode = "Editing"
           /\ app.event = KeyEvent(KeyCode("Enter", 0))
           /\ app.status = "failed"

\* the terminal UI's run_app has returned the error of a navigation started
\* from the URL bar
TuiUrlBarFailureWitness ==
    /\ NavigationFailed
    /\ app.ui = "cui"
    /\ app.input_mode = "Editing"
    /\ app.status = "failed"

\* a navigation from a focused link of the terminal UI has failed and the
\* loop goes on
TuiLinkFailureWitness ==
    /\ NavigationFailed
    /\ app.ui = "cui"
    /\ app.input_mode = "Normal"
    /\ IsSome(app.focus)
    /\ app.status = "running"

\* navigations from the URL bar and from a clicked link of the framebuffer
\* UI have failed and the loop goes on
WasabiUrlBarFailureWitness ==
    /\ NavigationFailed
    /\ app.ui = "wasabi"
    /\ app.click = None
    /\ app.status = "running"

WasabiClickFailureWitness ==
    /\ NavigationFailed
    /\ app.ui = "wasabi"
    /\ IsSome(app.click)
    /\ app.status = "running"

\* the first answer of the last navigation is a 302 with a Location header
Redirected ==
    /\ IsSome(app.fetch.first)
    /\ Unwrap(app.fetch.first).status_code = 302
    /\ IsSome(Unwrap(app.fetch.first).location)

BareRedirectWitness ==
    /\ app.fetch.navigations = 1
    /\ IsSome(app.fetch.first)
    /\ Unwrap(app.fetch.first).status_code = 302
    /\ Unwrap(app.fetch.first).location = None
    /\ app.fetch.requests = 1
    /\ app.fetch.response = app.fetch.first

\* the port of the Location's Url is no u16: the program has stopped after
\* the first request
RedirectAbortWitness ==
    /\ app.fetch.navigations = 1
    /\ Redirected
    /\ app.status = "aborted"
    /\ app.fetch.requests = 1

\* C37: the edit mode of the terminal UI is a machine of two states.  It
\* starts in Normal; the mode goes to Editing on 'e' in Normal and on nothing
\* else, and back to Normal on Esc in Editing and on nothing else; the URL
\* buffer changes in Editing only (a character is appended, Backspace removes
\* the last one, Enter drains it); Enter in Editing starts a navigation to
\* the buffer exactly when the buffer is not empty; 'q' quits in Normal only;
\* the link focus moves on Up and Down in Normal only, and a link is
\* navigated to on Enter in Normal with a focused link only.
C37_TuiEditMode ==
    /\ []((app.ui = "cui" /\ app.event = NoEvent)
             => (app.input_mode = "Normal" /\ app.input_url = <<>>))
    /\ [][app.ui = "cui" =>
            LET key == app'.event.key
                Is(code) == app'.event.kind = "key" /\ key.code = code
                Normal == app.input_mode = "Normal"
                Editing == app.input_mode = "Editing"
                navigated == app'.fetch.navigations = 1
            IN  /\ (Normal /\ app'.input_mode = "Editing") <=> (Normal /\ Is("Char") /\ key.c = 101)
                /\ (Editing /\ app'.input_mode = "Normal") <=> (Editing /\ Is("Esc"))
                /\ app'.input_mode \in {"Normal", "Editing"}
                /\ Normal => app'.input_url = app.input_url
                /\ Editing =>
                      app'.input_url =
                          IF Is("Char") THEN Append(app.input_url, key.c)
                          ELSE IF Is("Backspace") THEN Pop(app.input_url)
                          ELSE IF Is("Enter") THEN <<>>
                          ELSE app.input_url
                /\ (Editing /\ Is("Enter")) =>
                      /\ navigated <=> app.input_url # <<>>
                      /\ navigated => app'.fetch.destination = app.input_url
                /\ app'.status = "quit" <=> (Normal /\ Is("Char") /\ key.c = 113)
                /\ app'.focus # app.focus => (Normal /\ (Is("Up") \/ Is("Down")))
                /\ (Normal /\ navigated) =>
                      /\ Is("Enter")
                      /\ IsSome(app.focus)
                      /\ app'.fetch.destination = Chars(Unwrap(app.focus).destination)
                /\ (Normal /\ Is("Enter") /\ app.focus = None) => ~navigated
                /\ navigated => Is("Enter")]_vars

\* the terminal UI has drained a full URL buffer on Enter in Editing mode and
\* navigated to it
C37_Witness ==
    /\ app.ui = "cui"
    /\ app.input_mode = "Editing"
    /\ app.event = KeyEvent(KeyCode("Enter", 0))
    /\ app.fetch.navigations = 1
    /\ Len(app.fetch.destination) = MaxUrlLen
    /\ app.input_url = <<>>

\* 'q' has been appended to the URL buffer in Editing mode, and the loop goes on
TuiTypedQWitness ==
    /\ app.ui = "cui"
    /\ app.input_mode = "Editing"
    /\ app.event = KeyEvent(KeyCode("Char", 113))
    /\ app.input_url # <<>>
    /\ app.input_url[Len(app.input_url)] = 113
    /\ app.status = "running"

\* 'q' in Normal mode has ended the loop of the terminal UI
TuiQuitWitness ==
    /\ app.ui = "cui"
    /\ app.status = "quit"
    /\ app.input_mode = "Normal"

\* Esc has returned the terminal UI to Normal with the URL buffer kept
TuiEscWitness ==
    /\ app.ui = "cui"
    /\ app.event = KeyEvent(KeyCode("Esc", 0))
    /\ app.input_mode = "Normal"
    /\ app.input_url # <<>>

\* Enter in Normal mode has navigated to the focused link
TuiLinkNavigationWitness ==
    /\ app.ui = "cui"
    /\ app.input_mode = "Normal"
    /\ app.event = KeyEvent(KeyCode("Enter", 0))
    /\ IsSome(app.focus)
    /\ app.fetch.navigations = 1
    /\ app.fetch.destination = Chars(LinkDestination)

\* the regions of the screen the framebuffer UI tells apart
InWindow(position) ==
    /\ position[1] - WINDOW_INIT_X_POS \in 0..WINDOW_WIDTH
    /\ position[2] - WINDOW_INIT_Y_POS \in 0..WINDOW_HEIGHT
InTitleBar(position) ==
    /\ InWindow(position)
    /\ position[2] - WINDOW_INIT_Y_POS < TITLE_BAR_HEIGHT
InToolbar(position) ==
    /\ InWindow(position)
    /\ position[2] - WINDOW_INIT_Y_POS >= TITLE_BAR_HEIGHT
    /\ position[2] - WINDOW_INIT_Y_POS < TITLE_BAR_HEIGHT + TOOLBAR_HEIGHT

\* C38: the edit mode of the framebuffer UI follows the region clicked: a
\* click in the toolbar sets Editing and empties the URL buffer; a click in
\* the title bar or in the content area sets Normal; a click outside the
\* window changes nothing; a key in Normal mode changes nothing; Enter in
\* Editing sets Normal and, when the buffer is not empty, starts one
\* navigation to it and empties the buffer, whether the navigation succeeds
\* or fails; no other key changes the mode.
C38_WasabiEditMode ==
    [][app.ui = "wasabi" =>
         LET event == app'.event
             press == event.kind = "mouse" /\ event.button
             key == event.kind = "key"
             navigations == app'.fetch.navigations
             returned == app'.status # "aborted"
             same == /\ app'.input_mode = app.input_mode
                     /\ app'.input_url = app.input_url
                     /\ page' = page
                     /\ navigations = 0
         IN  /\ (press /\ InToolbar(event.position)) =>
                   /\ app'.input_mode = "Editing"
                   /\ app'.input_url = <<>>
                   /\ page' = page
                   /\ navigations = 0
             /\ (press /\ InTitleBar(event.position)) =>
                   /\ app'.input_mode = "Normal"
                   /\ app'.input_url = app.input_url
                   /\ page' = page
                   /\ navigations = 0
             /\ (press /\ InContentArea(event.position)) => app'.input_mode = "Normal"
             /\ (press /\ ~InWindow(event.position)) => same
             /\ (key /\ app.input_mode = "Normal") => same
             /\ (key /\ app.input_mode = "Editing" /\ event.key.c = ENTER) =>
                   /\ returned => app'.input_mode = "Normal"
                   /\ returned => app'.input_url = <<>>
                   /\ navigations = (IF app.input_url = <<>> THEN 0 ELSE 1)
                   /\ navigations = 1 =>
                         /\ app'.fetch.destination = app.input_url
                         /\ Len(SelectSeq(app'.page_calls,
                                          LAMBDA call : call = "receive_response")) <= 1
             /\ (key /\ app.input_mode = "Editing" /\ event.key.c # ENTER) =>
                   /\ app'.input_mode = "Editing"
                   /\ navigations = 0]_vars

\* Enter in Editing mode of the framebuffer UI has started a navigation to
\* a full URL buffer, the navigation has failed, and the buffer is empty and
\* the mode Normal
C38_Witness ==
    /\ app.ui = "wasabi"
    /\ app.event = KeyEvent(KeyCode("Char", ENTER))
    /\ app.fetch.navigations = 1
    /\ Len(app.fetch.destination) = MaxUrlLen
    /\ IsSome(app.fetch.error)
    /\ app.input_url = <<>>
    /\ app.input_mode = "Normal"
    /\ app.status = "running"

\* the same with a navigation that has succeeded
WasabiEnterSucceededWitness ==
    /\ app.ui = "wasabi"
    /\ app.event = KeyEvent(KeyCode("Char", ENTER))
    /\ app.fetch.navigations = 1
    /\ app.fetch.error = None
    /\ IsSome(app.fetch.response)
    /\ app.input_url = <<>>
    /\ app.input_mode = "Normal"

\* a click in the toolbar has set Editing while a page is shown
WasabiToolbarWitness ==
    /\ app.ui = "wasabi"
    /\ Pressed
    /\ InToolbar(app.event.position)
    /\ app.input_mode = "Editing"
    /\ app.input_url = <<>>
    /\ page.display_items # <<>>

\* a click outside the window has left the framebuffer UI in Editing mode
\* with its URL buffer
WasabiOutsideWitness ==
    /\ app.ui = "wasabi"
    /\ Pressed
    /\ ~InWindow(app.event.position)
    /\ app.input_mode = "Editing"
    /\ app.input_url # <<>>

\* a click on a link has set Normal and put the link's URL in the buffer
WasabiLinkClickWitness ==
    /\ app.ui = "wasabi"
    /\ Pressed
    /\ InContentArea(app.event.position)
    /\ app.fetch.navigations = 1
    /\ app.input_mode = "Normal"
    /\ app.input_url = app.fetch.destination
    /\ app.input_url # <<>>

\* the links of a display list in its order: the texts of its underlined
\* Text items
IsLinkItem(it) ==
    IF it.item = "Text" THEN Unwrap(it.style.text_decoration) = "Underline" ELSE FALSE
LinkTexts(items) ==
    LET links == SelectSeq(items, IsLinkItem)
    IN  [i \in 1..Len(links) |-> links[i].text]

\* the focus is on the i-th link
FocusAt(focus, links, i) ==
    /\ i \in 1..Len(links)
    /\ focus = Some(LinkNew(links[i], LinkDestination))

\* the terminal UI handles Up or Down in Normal mode
TuiMoves(code) ==
    /\ app.ui = "cui"
    /\ app.input_mode = "Normal"
    /\ app'.event = KeyEvent(KeyCode(code, 0))

\* C39 as stated: the link focus of the terminal UI follows the order of
\* the display list: Down with no focus focuses the first link, Down on a
\* link moves to the next and stays on the last, Up moves to the previous
\* link and clears the focus on the first, so that Up after a Down that moved
\* the focus gives back the focus held before.
C39_FocusFollowsOrder ==
    [][LET links == LinkTexts(page.display_items)
       IN  /\ (TuiMoves("Down") /\ app.focus = None /\ links # <<>>)
                 => FocusAt(app'.focus, links, 1)
           /\ \A i \in 1..Len(links) :
                 /\ (TuiMoves("Down") /\ FocusAt(app.focus, links, i))
                       => FocusAt(app'.focus, links, IF i < Len(links) THEN i + 1 ELSE i)
                 /\ (TuiMoves("Up") /\ FocusAt(app.focus, links, i))
                       => IF i = 1 THEN app'.focus = None
                          ELSE FocusAt(app'.focus, links, i - 1)]_vars

\* what the code does: Down follows the order; Up clears the focus on the
\* first link and leaves it where it is on every other link
UpStaysOnLaterLinks ==
    [][LET links == LinkTexts(page.display_items)
       IN  /\ (TuiMoves("Down") /\ app.focus = None /\ links # <<>>)
                 => FocusAt(app'.focus, links, 1)
           /\ \A i \in 1..Len(links) :
                 /\ (TuiMoves("Down") /\ FocusAt(app.focus, links, i))
                       => FocusAt(app'.focus, links, IF i < Len(links) THEN i + 1 ELSE i)
                 /\ (TuiMoves("Up") /\ FocusAt(app.focus, links, i))
                       => IF i = 1 THEN app'.focus = None
                          ELSE app'.focus = app.focus]_vars

\* Up has been handled with the focus on the second of three links, and the
\* focus is still there
UpStaysWitness ==
    /\ app.ui = "cui"
    /\ app.event = KeyEvent(KeyCode("Up", 0))
    /\ Len(LinkTexts(page.display_items)) = 3
    /\ FocusAt(app.focus, LinkTexts(page.display_items), 2)

\* Down has moved the focus to the last of three links
DownToLastWitness ==
    /\ app.ui = "cui"
    /\ app.event = KeyEvent(KeyCode("Down", 0))
    /\ Len(LinkTexts(page.display_items)) = 3
    /\ FocusAt(app.focus, LinkTexts(page.display_items), 3)

\* Up has cleared the focus of a page with links
UpClearsWitness ==
    /\ app.ui = "cui"
    /\ app.event = KeyEvent(KeyCode("Up", 0))
    /\ LinkTexts(page.display_items) # <<>>
    /\ app.focus = None
    /\ last.op = "start_navigation"

====
